---- MODULE Spec2Model ----
(***************************************************************************)
(* Coordinate-to-country resolution of the countries_visited integration   *)
(* (custom_components/countries_visited/sensor.py): the coordinate cache,  *)
(* the statistics counters, the lazily created reverse geocoder, the rate  *)
(* limiter and the statistics observers, as the asyncio tasks of one event *)
(* loop interleave on them.                                                *)
(*                                                                         *)
(* One action is one run of a coroutine between two suspension points      *)
(* (await asyncio.sleep, await hass.async_add_executor_job): the event     *)
(* loop runs nothing else in between.                                      *)
(*                                                                         *)
(* Time is counted in tenths of a second.  Coordinates are counted in      *)
(* thousandths of a degree, cache keys in hundredths.                      *)
(***************************************************************************)
EXTENDS Integers, Sequences, FiniteSets, TLC

VARIABLES
    cache,                  \* _COORDINATE_CACHE: cache key -> country code or None
    stats,                  \* _CACHE_STATS
    reverse_geocoder,       \* _reverse_geocoder: None, the Nominatim instance, or False
    last_api_call_time,     \* _last_api_call_time
    cache_stats_callbacks,  \* _cache_stats_callbacks, in registration order
    now,                    \* time.time()
    pc,                     \* per task: where its get_country_from_coords call stands
    coord,                  \* per task: the (lat, lon) it was called with
    wake,                   \* per task: when its asyncio.sleep is due
    result,                 \* per task: what the call returned
    gateway_started,        \* history: start time of the latest geocoder.reverse job
    geocoded,               \* history: cache keys a geocoder.reverse job was started for
    first_result,           \* history: per coordinate, what its first completed call returned
    notified,               \* history: the latest _notify_cache_stats_updated call
    outcome,                \* history, per task: what the geocoding job of its call did
    agg,                    \* the locals of the running CountriesVisitedSensor.async_update
    sensor,                 \* the fields of the CountriesVisitedSensor
    pass,                   \* history: the current aggregation pass
    read_time,              \* per task: the current_time its call read (sensor.py:133)
    history,                \* the coordinates list(set(...)) gave for the recorded states
    removed,                \* history: the sensors whose async_will_remove_from_hass ran
    called,                 \* history: the callbacks the latest notification called
    person,                 \* hass.states.get(person): the state record of the person
    service,                \* history: the latest service call and what it did
    lovelace,               \* hass.data["lovelace"].resources: loaded, and its items
    waiter,                 \* per async_wait_for_lovelace_resources call: its locals
    cards                   \* history: what the latest registration of the cards did

vars == <<cache, stats, reverse_geocoder, last_api_call_time, cache_stats_callbacks,
          now, pc, coord, wake, result, gateway_started, geocoded, first_result,
          notified, outcome, agg, sensor, pass, read_time, history, removed, called,
          person, service, lovelace, waiter, cards>>

(* The variables of the CountriesVisitedSensor *)
aggVars == <<agg, sensor, pass>>

(* What only the specifications of the waiting call, of the repeated       *)
(* passes, of the statistics sensors and of the services follow            *)
memVars == <<read_time, history, removed, called, person, service, lovelace, waiter,
            cards>>

(* The Lovelace resources and the registration of the cards in them *)
frontendVars == <<lovelace, waiter, cards>>

(* What belongs to Home Assistant: the state machine, as the services of   *)
(* services.py use it, and the Lovelace resources                          *)
hassVars == <<person, service, frontendVars>>

(* The history of the statistics sensors *)
entityVars == <<removed, called>>

(* What the callers of get_country_from_coords leave alone *)
restVars == <<aggVars, memVars>>

---------------------------------------------------------------------------
(* Bounds of the model *)

MaxRequests == 3     \* calls of get_country_from_coords in one behaviour
max_coords == 2      \* sensor.py:491 has 100: the cap, scaled to the histories of the model
MaxCodes == 2        \* codes in one set_countries call
MaxResources == 2    \* resources Lovelace holds before the cards are registered
MaxRuns == 2         \* registrations of the cards of one resource list
MaxTime == 11        \* tenths of a second the clock runs past Epoch
Epoch == 20          \* time.time() when the module is loaded (any value >= 11)

(* The asyncio tasks that call get_country_from_coords, and the statistics *)
(* sensors that can be set up                                              *)
Tasks == {"t1", "t2"}
Observers == {"stats_sensor"}

(* An observer whose callback may raise *)
Faulty == {"broken_sensor"}

(* sensor.py:37, in tenths of a second *)
RATE_LIMIT_SECONDS == 11

(* Python's None, and the values that stand for "nothing yet" in the history *)
None == "None"
NoResult == "NoResult"
Never == -1

(* Raw coordinates in thousandths of a degree: the first two share a cache key *)
Coords == { <<1001, 2003>>, <<1004, 1998>>, <<1006, 2003>> }
NoCoord == <<0, 0>>

---------------------------------------------------------------------------
(* round(x, 2) on a value given in thousandths, as a value in hundredths:   *)
(* to nearest, a tie to the even neighbour                                  *)
Round2(x) ==
    LET q == x \div 10
        r == x % 10
    IN  IF r < 5 THEN q
        ELSE IF r > 5 THEN q + 1
        ELSE IF q % 2 = 0 THEN q ELSE q + 1

(* A fault: the raw coordinate is the cache key *)
CacheKeyRaw(c) == c

(* sensor.py:106 *)
CacheKey(c) == <<Round2(c[1]), Round2(c[2])>>

Keys == { CacheKey(c) : c \in Coords }

---------------------------------------------------------------------------
(* The geocoding provider *)

(* What geocoder.reverse can do with one request: give a location whose    *)
(* address has the country code cc ("" when the address has none), give no *)
(* location, or raise                                                      *)
Responses ==
    { [kind |-> "location", country_code |-> cc] : cc \in {"us", "FR", "usa", ""} }
    \cup { [kind |-> k, country_code |-> ""] :
             k \in {"no_location", "timed_out", "service_error", "other_error"} }

(* In the history of a call: no geocoding job has ended, or the await of   *)
(* the job raised                                                          *)
NoJob == [kind |-> "none", country_code |-> ""]
JobRaised == [kind |-> "job_raised", country_code |-> ""]

(* str.upper() on the country codes of Responses and of the service calls *)
Upper(s) ==
    CASE s = "us" -> "US"
      [] s = "usa" -> "USA"
      [] s = "de" -> "DE"
      [] s = "fr" -> "FR"
      [] OTHER -> s

(* A fault: the country code is returned as the provider wrote it *)
ReverseGeocodeAsGiven(resp) ==
    IF resp.kind = "location"
    THEN IF resp.country_code # "" /\ Len(resp.country_code) = 2
         THEN resp.country_code ELSE None
    ELSE None

(* sensor.py:147-165, reverse_geocode: the country code of a response, or None *)
ReverseGeocode(resp) ==
    IF resp.kind = "location"
    THEN LET country_code == Upper(resp.country_code)
         IN  IF country_code # "" /\ Len(country_code) = 2 THEN country_code ELSE None
    ELSE None

(* A fault: the geocoder is set up again after it was found unavailable *)
GetReverseGeocoderRetry(g) ==
    IF g \in {"None", "False"} THEN {"Nominatim", "False"} ELSE {g}

(* sensor.py:40-60, _get_reverse_geocoder: the values _reverse_geocoder can  *)
(* hold after the call; it is created (or found unavailable) only while None *)
GetReverseGeocoder(g) ==
    IF g = "None" THEN {"Nominatim", "False"} ELSE {g}

---------------------------------------------------------------------------
(* Cache, statistics, rate limiter, observers *)

(* cache_key in _COORDINATE_CACHE *)
InCache(k) == k \in DOMAIN cache

(* A fault: an entry that exists is kept, the first store wins *)
StoreIfAbsent(k, v) ==
    [x \in DOMAIN cache \cup {k} |-> IF x \in DOMAIN cache THEN cache[x] ELSE v]

(* _COORDINATE_CACHE[cache_key] = value *)
Store(k, v) == [x \in DOMAIN cache \cup {k} |-> IF x = k THEN v ELSE cache[x]]

(* sensor.py:109 and 114 *)
CountHit(s) ==
    [s EXCEPT !.total_requests = @ + 1, !.cache_hits = @ + 1]

(* A fault: the miss is counted only after the geocoding job *)
CountMissLate(s) ==
    [s EXCEPT !.total_requests = @ + 1]

(* sensor.py:109 and 121 *)
CountMiss(s) ==
    [s EXCEPT !.total_requests = @ + 1, !.cache_misses = @ + 1]

(* A fault: the call is counted on the normal path and again on the error path *)
CountApiCallTwice(s) ==
    [s EXCEPT !.api_calls = @ + 2]

(* A fault: the call is not counted *)
CountApiCallNever(s) == s

(* sensor.py:170 and 188 *)
CountApiCall(s) ==
    [s EXCEPT !.api_calls = @ + 1]

(* sensor.py:133-136: the call must wait *)
MustWait(current_time) ==
    current_time - last_api_call_time < RATE_LIMIT_SECONDS

(* A fault: the wait is computed for an interval of one second *)
WaitTimeOneSecond(current_time) ==
    10 - (current_time - last_api_call_time)

(* sensor.py:137 *)
WaitTime(current_time) ==
    RATE_LIMIT_SECONDS - (current_time - last_api_call_time)

Range(seq) == { seq[i] : i \in 1..Len(seq) }

(* The registered callbacks that may raise when they are called *)
Raising == SUBSET (Range(cache_stats_callbacks) \cap Faulty)

RECURSIVE CalledUntilRaise(_, _)
(* A fault: the loop has no try/except, the first callback that raises     *)
(* ends it                                                                 *)
CalledUntilRaise(callbacks, raising) ==
    IF callbacks = << >> THEN {}
    ELSE IF Head(callbacks) \in raising THEN {Head(callbacks)}
    ELSE {Head(callbacks)} \cup CalledUntilRaise(Tail(callbacks), raising)

RECURSIVE Called(_, _)
(* sensor.py:65-69: the callbacks the loop calls, raising the ones that    *)
(* raise; one that raises does not end the loop                            *)
Called(callbacks, raising) ==
    IF callbacks = << >> THEN {}
    ELSE {Head(callbacks)} \cup Called(Tail(callbacks), raising)

(* A fault: the observers are called before the counters are updated *)
NotifyEarly(s, raising) ==
    [count |-> notified.count + 1, stats |-> stats,
     all |-> Called(cache_stats_callbacks, raising) = Range(cache_stats_callbacks),
     raised |-> raising]

(* sensor.py:63-69, _notify_cache_stats_updated, as the observers see it:  *)
(* the statistics at the call, whether every registered callback was       *)
(* called, and the callbacks that raised                                   *)
Notify(s, raising) ==
    [count |-> notified.count + 1, stats |-> s,
     all |-> Called(cache_stats_callbacks, raising) = Range(cache_stats_callbacks),
     raised |-> raising]

(* A call for the key k by a task other than t is suspended in its sleep or *)
(* in its geocoding job                                                    *)
InFlight(k, t) ==
    \E u \in Tasks \ {t} :
        pc[u] \in {"sleeping", "calling"} /\ CacheKey(coord[u]) = k

(* The history of a coordinate's first completed call, made by task t: the *)
(* value it returned, and how it ended: "hit" from the cache, "disabled"    *)
(* without a geocoder, or storing its value, "raced" if another call for   *)
(* the key was in flight at the store and "quiet" if none was              *)
NoFirst == [value |-> NoResult, how |-> "none"]

Completed(t, c, r, how) ==
    [first_result EXCEPT ![c] =
        IF @ # NoFirst THEN @
        ELSE [value |-> r,
              how |-> IF how # "stored" THEN how
                      ELSE IF InFlight(CacheKey(c), t) THEN "raced" ELSE "quiet"]]

---------------------------------------------------------------------------
(* CountriesVisitedSensor *)

(* The task that runs async_update of the sensor *)
AggTask == "t1"

(* The country codes of the model in the order of Python's str comparison *)
CodeOrder == <<"DE", "FR", "US", "ZZ">>

Rank(code) == CHOOSE i \in 1..Len(CodeOrder) : CodeOrder[i] = code

(* The visited_countries attribute of the person: unsorted and with a code *)
(* twice, or with a code const.py has no name for                          *)
Manuals == { << >>, <<"US", "DE", "US">>, <<"ZZ", "FR">> }

(* const.py:53-98 and sensor.py:287, ISO_TO_NAME.get(code, code) *)
ISO_TO_NAME(code) ==
    CASE code = "DE" -> "Germany"
      [] code = "FR" -> "France"
      [] code = "US" -> "United States"
      [] OTHER -> code

RECURSIVE Insert(_, _)
(* list.sort(), one element put in its place *)
Insert(x, s) ==
    IF s = << >> THEN <<x>>
    ELSE IF Rank(x) <= Rank(Head(s)) THEN <<x>> \o s
    ELSE <<Head(s)>> \o Insert(x, Tail(s))

RECURSIVE SortList(_)
(* sensor.py:263 and 282, list.sort() *)
SortList(s) == IF s = << >> THEN << >> ELSE Insert(Head(s), SortList(Tail(s)))

RECURSIVE ListOfSet(_)
(* list(set(...)), in one of the orders Python may give *)
ListOfSet(S) ==
    IF S = {} THEN << >>
    ELSE LET x == CHOOSE x \in S : TRUE IN <<x>> \o ListOfSet(S \ {x})

(* The orders list(set(...)) may give the elements of S *)
Orders(S) == { s \in [1..Cardinality(S) -> S] : Range(s) = S }

(* A fault: the two lists are merged without set() *)
MergeKeepsDuplicates(manual_countries, history_countries) ==
    SortList(manual_countries \o history_countries)

(* sensor.py:262-263 *)
Merge(manual_countries, history_countries) ==
    SortList(ListOfSet(Range(manual_countries \o history_countries)))

(* A fault: the current country is not looked up in the list *)
AddCurrentAlways(visited_countries, current_country) ==
    IF current_country # None
    THEN SortList(Append(visited_countries, current_country))
    ELSE visited_countries

(* A fault: the current country is published but never added to the list *)
AddCurrentNever(visited_countries, current_country) == visited_countries

(* sensor.py:277-283 *)
AddCurrent(visited_countries, current_country) ==
    IF current_country # None /\ current_country \notin Range(visited_countries)
    THEN SortList(Append(visited_countries, current_country))
    ELSE visited_countries

(* A fault: a code const.py has no name for is left out *)
NamesOfKnown(visited_countries) ==
    LET known == SelectSeq(visited_countries, LAMBDA code : ISO_TO_NAME(code) # code)
    IN  [i \in 1..Len(known) |-> ISO_TO_NAME(known[i])]

(* sensor.py:286-288 *)
Names(visited_countries) ==
    [i \in 1..Len(visited_countries) |-> ISO_TO_NAME(visited_countries[i])]

(* A fault: the history is taken whole *)
LimitNone(unique_coords) == unique_coords

(* sensor.py:491-499 *)
Limit(unique_coords) ==
    IF Len(unique_coords) > max_coords
    THEN SubSeq(unique_coords, 1, max_coords)
    ELSE unique_coords

(* _attr_native_value and _attr_extra_state_attributes before the first    *)
(* update publishes: None and {}                                           *)
Unpublished == -1
NoAttributes ==
    [visited_countries |-> << >>, visited_countries_names |-> << >>,
     detected_from_history |-> {}, manual_countries |-> << >>,
     current_country |-> None]

(* No async_update is running *)
NoUpdate ==
    [pc |-> "idle", manual_countries |-> << >>, unique_coords |-> << >>,
     detected |-> {}, visited_countries |-> << >>, aliased |-> FALSE]

(* The history of a pass: how many distinct coordinates the history held,  *)
(* the coordinates submitted to get_country_from_coords from it, the codes *)
(* these calls returned, how the pass ended, whether the history was read  *)
(* or its reader raised, how many of the calls of the pass had a geocoding *)
(* job and how many of these jobs ended in an error, and the codes the     *)
(* sensor showed before the pass published and does not show after        *)
NoPass ==
    [found |-> 0, submitted |-> << >>, resolved |-> {}, ended |-> "none",
     reader |-> "none", jobs |-> 0, failed |-> 0, dropped |-> {}]

(* How a geocoding job ends when the geocoder, the provider or the         *)
(* executor raises                                                         *)
Errors == {"timed_out", "service_error", "other_error", "job_raised"}

(* The pass p with the job of the call that has returned *)
Counted(p) ==
    [p EXCEPT !.jobs = IF outcome[AggTask].kind # "none" THEN @ + 1 ELSE @,
              !.failed = IF outcome[AggTask].kind \in Errors THEN @ + 1 ELSE @]

(* sensor.py:290-298: what async_update publishes; visited_countries and   *)
(* _last_visited_countries are one list when line 272 has assigned it      *)
Publish(current_country) ==
    LET visited_countries == AddCurrent(agg.visited_countries, current_country)
    IN  [native_value |-> Len(visited_countries),
         attributes |->
             [visited_countries |-> visited_countries,
              visited_countries_names |-> Names(visited_countries),
              detected_from_history |-> agg.detected,
              manual_countries |-> agg.manual_countries,
              current_country |-> current_country],
         last_visited_countries |->
             IF agg.aliased THEN visited_countries ELSE sensor.last_visited_countries]

(* No history was read yet *)
NoHistory == <<NoCoord>>

(* The person has no visited_countries attribute *)
Absent == <<"absent">>

(* hass.states.get(person) returns None *)
NoState ==
    [state |-> None, attributes |-> [friendly_name |-> "", visited_countries |-> Absent]]

(* No service was called yet *)
NoService == [name |-> "none", code |-> "", returned |-> FALSE, wrote |-> FALSE]

(* frontend/__init__.py:47: retries = 10 *)
MaxRetries == 10

(* The async_wait_for_lovelace_resources calls: __init__.py:207-208 makes  *)
(* one for every config entry that is set up                               *)
Waiters == {"w1", "w2"}

(* Lovelace before its resources are loaded, with no resource *)
NoResources == [loaded |-> FALSE, items |-> << >>]

(* A call that was not made yet.  retries is the local of the call; tests, *)
(* later and registered are history: how often the call read               *)
(* resources.loaded, called async_call_later and registered the cards      *)
NotCalled ==
    [pc |-> "idle", retries |-> MaxRetries, tests |-> 0, later |-> 0, registered |-> 0]

(* No registration of the cards since the resources were last changed by   *)
(* somebody else                                                           *)
NoRun == [runs |-> 0, created |-> 0, updated |-> 0]

(* round(n / d, 0) for d > 0: to nearest, a tie to the even neighbour *)
RoundDiv(n, d) ==
    LET q == n \div d
        r == n % d
    IN  IF 2 * r < d THEN q
        ELSE IF 2 * r > d THEN q + 1
        ELSE IF q % 2 = 0 THEN q ELSE q + 1

(* A fault: the rate is the fraction of the requests, not the percentage *)
GetCacheStatsAsFraction ==
    [cache_size |-> Cardinality(DOMAIN cache),
     cache_hits |-> stats.cache_hits,
     cache_misses |-> stats.cache_misses,
     api_calls |-> stats.api_calls,
     total_requests |-> stats.total_requests,
     hit_rate |-> IF stats.total_requests > 0
                  THEN RoundDiv(stats.cache_hits * 100, stats.total_requests)
                  ELSE 0]

(* sensor.py:72-90, hit_rate in hundredths of a percent:                   *)
(* round(cache_hits / total_requests * 100, 2), or 0.0 without requests    *)
get_cache_stats ==
    [cache_size |-> Cardinality(DOMAIN cache),
     cache_hits |-> stats.cache_hits,
     cache_misses |-> stats.cache_misses,
     api_calls |-> stats.api_calls,
     total_requests |-> stats.total_requests,
     hit_rate |-> IF stats.total_requests > 0
                  THEN RoundDiv(stats.cache_hits * 10000, stats.total_requests)
                  ELSE 0]

---------------------------------------------------------------------------
Init ==
    /\ cache = << >>
    /\ stats = [cache_hits |-> 0, cache_misses |-> 0, api_calls |-> 0, total_requests |-> 0]
    /\ reverse_geocoder = "None"
    /\ last_api_call_time = 0
    /\ cache_stats_callbacks = << >>
    /\ now = Epoch
    /\ pc = [t \in Tasks |-> "idle"]
    /\ coord = [t \in Tasks |-> NoCoord]
    /\ wake = [t \in Tasks |-> 0]
    /\ result = [t \in Tasks |-> NoResult]
    /\ gateway_started = Never
    /\ geocoded = {}
    /\ first_result = [c \in Coords |-> NoFirst]
    /\ notified = [count |-> 0, stats |-> stats, all |-> TRUE, raised |-> {}]
    /\ outcome = [t \in Tasks |-> NoJob]
    /\ agg = NoUpdate
    /\ sensor = [native_value |-> Unpublished, attributes |-> NoAttributes,
                 last_visited_countries |-> << >>]
    /\ pass = NoPass
    /\ read_time = [t \in Tasks |-> 0]
    /\ history = NoHistory
    /\ removed = {}
    /\ called = {}
    /\ person = NoState
    /\ service = NoService
    /\ lovelace = NoResources
    /\ waiter = [w \in Waiters |-> NotCalled]
    /\ cards = NoRun

(* A call of get_country_from_coords may start *)
CanCall(t) ==
    /\ pc[t] = "idle"
    /\ stats.total_requests < MaxRequests

(* A fault: the rate limiter's timestamp is written before the cache is read *)
HitPathRateLimited(t, c) ==
    /\ CanCall(t)
    /\ InCache(CacheKey(c))
    /\ last_api_call_time' = now
    /\ stats' = CountHit(stats)
    /\ \E raising \in Raising : notified' = Notify(stats', raising)
    /\ pc' = [pc EXCEPT ![t] = "done"]
    /\ coord' = [coord EXCEPT ![t] = c]
    /\ result' = [result EXCEPT ![t] = cache[CacheKey(c)]]
    /\ first_result' = Completed(t, c, cache[CacheKey(c)], "hit")
    /\ UNCHANGED <<cache, reverse_geocoder, cache_stats_callbacks,
                   now, wake, gateway_started, geocoded>>
    /\ UNCHANGED outcome

(* sensor.py:106-118: the key is cached *)
HitPath(t, c) ==
    /\ CanCall(t)
    /\ InCache(CacheKey(c))
    /\ stats' = CountHit(stats)
    /\ \E raising \in Raising : notified' = Notify(stats', raising)
    /\ pc' = [pc EXCEPT ![t] = "done"]
    /\ coord' = [coord EXCEPT ![t] = c]
    /\ result' = [result EXCEPT ![t] = cache[CacheKey(c)]]
    /\ first_result' = Completed(t, c, cache[CacheKey(c)], "hit")
    /\ UNCHANGED <<cache, reverse_geocoder, last_api_call_time, cache_stats_callbacks,
                   now, wake, gateway_started, geocoded>>
    /\ UNCHANGED outcome

(* A fault: the miss without a geocoder is cached as a failed lookup *)
DisabledPathCachesNone(t, c) ==
    /\ CanCall(t)
    /\ ~InCache(CacheKey(c))
    /\ stats' = CountMiss(stats)
    /\ \E g \in GetReverseGeocoder(reverse_geocoder) :
          /\ g = "False"
          /\ reverse_geocoder' = g
    /\ cache' = Store(CacheKey(c), None)
    /\ \E raising \in Raising : notified' = Notify(stats', raising)
    /\ pc' = [pc EXCEPT ![t] = "done"]
    /\ coord' = [coord EXCEPT ![t] = c]
    /\ result' = [result EXCEPT ![t] = None]
    /\ first_result' = Completed(t, c, None, "disabled")
    /\ UNCHANGED <<last_api_call_time, cache_stats_callbacks, now, wake,
                   gateway_started, geocoded>>
    /\ UNCHANGED outcome

(* sensor.py:106-128: a miss, and no geocoder *)
DisabledPath(t, c) ==
    /\ CanCall(t)
    /\ ~InCache(CacheKey(c))
    /\ stats' = CountMiss(stats)
    /\ \E g \in GetReverseGeocoder(reverse_geocoder) :
          /\ g = "False"
          /\ reverse_geocoder' = g
    /\ \E raising \in Raising : notified' = Notify(stats', raising)
    /\ pc' = [pc EXCEPT ![t] = "done"]
    /\ coord' = [coord EXCEPT ![t] = c]
    /\ result' = [result EXCEPT ![t] = None]
    /\ first_result' = Completed(t, c, None, "disabled")
    /\ UNCHANGED <<cache, last_api_call_time, cache_stats_callbacks, now, wake,
                   gateway_started, geocoded>>
    /\ UNCHANGED outcome

(* sensor.py:142-167: the timestamp is recorded and the geocoding job is    *)
(* handed to the executor                                                  *)
StartJob(t, c) ==
    /\ last_api_call_time' = now
    /\ gateway_started' = now
    /\ geocoded' = geocoded \cup {CacheKey(c)}
    /\ pc' = [pc EXCEPT ![t] = "calling"]
    /\ wake' = [wake EXCEPT ![t] = 0]

(* sensor.py:106-139: a miss too soon after the last call, up to the sleep *)
MissWait(t, c) ==
    /\ CanCall(t)
    /\ ~InCache(CacheKey(c))
    /\ stats' = CountMiss(stats)
    /\ \E g \in GetReverseGeocoder(reverse_geocoder) :
          /\ g = "Nominatim"
          /\ reverse_geocoder' = g
    /\ MustWait(now)
    /\ wake' = [wake EXCEPT ![t] = now + WaitTime(now)]
    /\ pc' = [pc EXCEPT ![t] = "sleeping"]
    /\ coord' = [coord EXCEPT ![t] = c]
    /\ UNCHANGED <<cache, last_api_call_time, cache_stats_callbacks, now, result,
                   gateway_started, geocoded, first_result, notified>>
    /\ UNCHANGED outcome

(* sensor.py:106-167: a miss long enough after the last call, up to the job *)
MissCall(t, c) ==
    /\ CanCall(t)
    /\ ~InCache(CacheKey(c))
    /\ stats' = CountMiss(stats)
    /\ \E g \in GetReverseGeocoder(reverse_geocoder) :
          /\ g = "Nominatim"
          /\ reverse_geocoder' = g
    /\ ~MustWait(now)
    /\ StartJob(t, c)
    /\ coord' = [coord EXCEPT ![t] = c]
    /\ UNCHANGED <<cache, cache_stats_callbacks, now, result, first_result, notified>>
    /\ UNCHANGED outcome

(* A fault: the call that wakes reads the timestamp again, and sleeps again *)
(* when another call has started a job in the meantime                     *)
WakeRechecks(t) ==
    /\ pc[t] = "sleeping"
    /\ now >= wake[t]
    /\ IF MustWait(now)
       THEN /\ wake' = [wake EXCEPT ![t] = now + WaitTime(now)]
            /\ UNCHANGED <<pc, last_api_call_time, gateway_started, geocoded>>
       ELSE StartJob(t, coord[t])
    /\ UNCHANGED <<cache, stats, reverse_geocoder, cache_stats_callbacks, now, coord,
                   result, first_result, notified>>
    /\ UNCHANGED outcome

(* sensor.py:139-167: the sleep is over *)
Wake(t) ==
    /\ pc[t] = "sleeping"
    /\ now >= wake[t]
    /\ StartJob(t, coord[t])
    /\ UNCHANGED <<cache, stats, reverse_geocoder, cache_stats_callbacks, now, coord,
                   result, first_result, notified>>
    /\ UNCHANGED outcome

(* sensor.py:167-183: the job returned *)
JobDone(t, resp) ==
    /\ pc[t] = "calling"
    /\ LET country_code == ReverseGeocode(resp)
       IN  /\ stats' = CountApiCall(stats)
           /\ cache' = Store(CacheKey(coord[t]), country_code)
           /\ \E raising \in Raising : notified' = Notify(stats', raising)
           /\ result' = [result EXCEPT ![t] = country_code]
           /\ first_result' = Completed(t, coord[t], country_code, "stored")
    /\ pc' = [pc EXCEPT ![t] = "done"]
    /\ UNCHANGED <<reverse_geocoder, last_api_call_time, cache_stats_callbacks, now,
                   coord, wake, gateway_started, geocoded>>
    /\ outcome' = [outcome EXCEPT ![t] = resp]

(* A fault: the error path stores nothing *)
JobRaisesNoStore(t) ==
    /\ pc[t] = "calling"
    /\ stats' = CountApiCall(stats)
    /\ \E raising \in Raising : notified' = Notify(stats', raising)
    /\ result' = [result EXCEPT ![t] = None]
    /\ first_result' = Completed(t, coord[t], None, "stored")
    /\ pc' = [pc EXCEPT ![t] = "done"]
    /\ UNCHANGED <<cache, reverse_geocoder, last_api_call_time, cache_stats_callbacks,
                   now, coord, wake, gateway_started, geocoded>>
    /\ outcome' = [outcome EXCEPT ![t] = JobRaised]

(* A fault: the error of the job reaches the caller *)
JobRaisesToCaller(t) ==
    /\ pc[t] = "calling"
    /\ pc' = [pc EXCEPT ![t] = "idle"]
    /\ coord' = [coord EXCEPT ![t] = NoCoord]
    /\ outcome' = [outcome EXCEPT ![t] = JobRaised]
    /\ UNCHANGED <<cache, stats, reverse_geocoder, last_api_call_time,
                   cache_stats_callbacks, now, wake, result, gateway_started, geocoded,
                   first_result, notified>>

(* sensor.py:167 and 185-193: the await of the job raised *)
JobRaises(t) ==
    /\ pc[t] = "calling"
    /\ stats' = CountApiCall(stats)
    /\ cache' = Store(CacheKey(coord[t]), None)
    /\ \E raising \in Raising : notified' = Notify(stats', raising)
    /\ result' = [result EXCEPT ![t] = None]
    /\ first_result' = Completed(t, coord[t], None, "stored")
    /\ pc' = [pc EXCEPT ![t] = "done"]
    /\ UNCHANGED <<reverse_geocoder, last_api_call_time, cache_stats_callbacks, now,
                   coord, wake, gateway_started, geocoded>>
    /\ outcome' = [outcome EXCEPT ![t] = JobRaised]

(* A fault: a cancelled call takes its miss back *)
CancelUncounts(t) ==
    /\ pc[t] \in {"sleeping", "calling"}
    /\ pc' = [pc EXCEPT ![t] = "idle"]
    /\ coord' = [coord EXCEPT ![t] = NoCoord]
    /\ wake' = [wake EXCEPT ![t] = 0]
    /\ stats' = [stats EXCEPT !.total_requests = @ - 1, !.cache_misses = @ - 1]
    /\ UNCHANGED <<cache, reverse_geocoder, last_api_call_time,
                   cache_stats_callbacks, now, result, gateway_started, geocoded,
                   first_result, notified, outcome>>

(* The task is cancelled at its suspension point: CancelledError is not an *)
(* Exception, so sensor.py:185 does not catch it                           *)
Cancel(t) ==
    /\ pc[t] \in {"sleeping", "calling"}
    /\ pc' = [pc EXCEPT ![t] = "idle"]
    /\ coord' = [coord EXCEPT ![t] = NoCoord]
    /\ wake' = [wake EXCEPT ![t] = 0]
    /\ UNCHANGED <<cache, stats, reverse_geocoder, last_api_call_time,
                   cache_stats_callbacks, now, result, gateway_started, geocoded,
                   first_result, notified>>
    /\ UNCHANGED outcome

(* The caller takes the value the call returned *)
Return(t) ==
    /\ pc[t] = "done"
    /\ pc' = [pc EXCEPT ![t] = "idle"]
    /\ coord' = [coord EXCEPT ![t] = NoCoord]
    /\ result' = [result EXCEPT ![t] = NoResult]
    /\ UNCHANGED <<cache, stats, reverse_geocoder, last_api_call_time,
                   cache_stats_callbacks, now, wake, gateway_started, geocoded,
                   first_result, notified>>
    /\ outcome' = [outcome EXCEPT ![t] = NoJob]

(* sensor.py:527-540, CacheStatisticsSensor.__init__ *)
RegisterCallback(o) ==
    /\ o \notin Range(cache_stats_callbacks)
    /\ cache_stats_callbacks' = Append(cache_stats_callbacks, o)
    /\ UNCHANGED <<cache, stats, reverse_geocoder, last_api_call_time, now, pc, coord,
                   wake, result, gateway_started, geocoded, first_result, notified>>
    /\ UNCHANGED outcome

(* A fault: the callback registered first is removed, whose ever it is *)
RemoveOldestCallback(o) ==
    /\ o \in Range(cache_stats_callbacks)
    /\ cache_stats_callbacks' = Tail(cache_stats_callbacks)
    /\ UNCHANGED <<cache, stats, reverse_geocoder, last_api_call_time, now, pc, coord,
                   wake, result, gateway_started, geocoded, first_result, notified>>
    /\ UNCHANGED outcome

(* sensor.py:552-555, CacheStatisticsSensor.async_will_remove_from_hass *)
RemoveCallback(o) ==
    /\ o \in Range(cache_stats_callbacks)
    /\ cache_stats_callbacks' = SelectSeq(cache_stats_callbacks, LAMBDA x : x # o)
    /\ UNCHANGED <<cache, stats, reverse_geocoder, last_api_call_time, now, pc, coord,
                   wake, result, gateway_started, geocoded, first_result, notified>>
    /\ UNCHANGED outcome

(* Time passes *)
Tick ==
    /\ now < Epoch + MaxTime
    /\ now' = now + 1
    /\ UNCHANGED <<cache, stats, reverse_geocoder, last_api_call_time,
                   cache_stats_callbacks, pc, coord, wake, result, gateway_started,
                   geocoded, first_result, notified>>
    /\ UNCHANGED outcome

(* sensor.py:139: time passes until the asyncio.sleep of the task is due *)
Elapse(t) ==
    /\ pc[t] = "sleeping"
    /\ now < wake[t]
    /\ now' = wake[t]
    /\ UNCHANGED <<cache, stats, reverse_geocoder, last_api_call_time,
                   cache_stats_callbacks, pc, coord, wake, result, gateway_started,
                   geocoded, first_result, notified, outcome>>

(* The caller of every call that has returned has resumed: a return is    *)
(* no suspension point, so no other task and no timer runs before the      *)
(* caller has the value                                                    *)
Resumed == \A t \in Tasks : pc[t] # "done"

(* The steps of the tasks of T *)
TaskStep(T) ==
    \E t \in T :
        \/ \E c \in Coords : Resumed /\ HitPath(t, c) /\ UNCHANGED restVars
        \/ \E c \in Coords : Resumed /\ DisabledPath(t, c) /\ UNCHANGED restVars
        \/ \E c \in Coords : Resumed /\ MissWait(t, c) /\ UNCHANGED restVars
        \/ \E c \in Coords : Resumed /\ MissCall(t, c) /\ UNCHANGED restVars
        \/ Resumed /\ Wake(t) /\ UNCHANGED restVars
        \/ \E resp \in Responses : Resumed /\ JobDone(t, resp) /\ UNCHANGED restVars
        \/ Resumed /\ JobRaises(t) /\ UNCHANGED restVars
        \/ Resumed /\ Cancel(t) /\ UNCHANGED restVars
        \/ Return(t) /\ UNCHANGED restVars

Environment ==
    \/ \E o \in Observers : Resumed /\ RegisterCallback(o) /\ UNCHANGED restVars
    \/ \E o \in Observers : Resumed /\ RemoveCallback(o) /\ UNCHANGED restVars
    \/ Resumed /\ Tick /\ UNCHANGED restVars

Next == TaskStep(Tasks) \/ Environment

Spec == Init /\ [][Next]_vars

(* One task alone: every call is awaited before the next one starts *)
NextSeq == TaskStep({"t1"}) \/ Environment

SpecSeq == Init /\ [][NextSeq]_vars

(* One task, and a second observer whose callback may raise *)
EnvironmentObs ==
    \/ \E o \in Observers \cup Faulty : Resumed /\ RegisterCallback(o) /\ UNCHANGED restVars
    \/ \E o \in Observers \cup Faulty : Resumed /\ RemoveCallback(o) /\ UNCHANGED restVars
    \/ Resumed /\ Tick /\ UNCHANGED restVars

NextObs == TaskStep({"t1"}) \/ EnvironmentObs

SpecObs == Init /\ [][NextObs]_vars

---------------------------------------------------------------------------
(* CountriesVisitedSensor.async_update *)

(* sensor.py:246-251: the person has no state, async_update returns *)
UpdateNoState ==
    /\ agg.pc = "idle"
    /\ pc[AggTask] = "idle"
    /\ pass' = [NoPass EXCEPT !.ended = "no_state"]
    /\ UNCHANGED <<agg, sensor>>
    /\ UNCHANGED <<cache, stats, reverse_geocoder, last_api_call_time,
                   cache_stats_callbacks, now, pc, coord, wake, result, gateway_started,
                   geocoded, first_result, notified, outcome>>

(* sensor.py:246-258 and 316-499: async_update reads the manual list, and  *)
(* _detect_countries_from_history reads the history, whose states hold the *)
(* coordinates of unique_coords (none when the history cannot be read)     *)
UpdateStart(manual_countries, unique_coords) ==
    /\ agg.pc = "idle"
    /\ pc[AggTask] = "idle"
    /\ agg' = [NoUpdate EXCEPT !.pc = "history",
                               !.manual_countries = manual_countries,
                               !.unique_coords = Limit(unique_coords)]
    /\ pass' = [NoPass EXCEPT !.found = Len(unique_coords), !.reader = "read"]
    /\ UNCHANGED sensor
    /\ UNCHANGED <<cache, stats, reverse_geocoder, last_api_call_time,
                   cache_stats_callbacks, now, pc, coord, wake, result, gateway_started,
                   geocoded, first_result, notified, outcome>>

(* sensor.py:246-258, 320-351 and 516-521: async_update reads the manual    *)
(* list; the history component is missing or reading the history raises,   *)
(* and _detect_countries_from_history returns an empty list                *)
UpdateStartUnread(manual_countries) ==
    /\ agg.pc = "idle"
    /\ pc[AggTask] = "idle"
    /\ agg' = [NoUpdate EXCEPT !.pc = "history",
                               !.manual_countries = manual_countries]
    /\ pass' = [NoPass EXCEPT !.reader = "raised"]
    /\ UNCHANGED sensor
    /\ UNCHANGED <<cache, stats, reverse_geocoder, last_api_call_time,
                   cache_stats_callbacks, now, pc, coord, wake, result, gateway_started,
                   geocoded, first_result, notified, outcome>>

(* get_country_from_coords(hass, lat, lon) is called and runs to its return *)
(* or to its first suspension                                              *)
Resolve(c) ==
    \/ HitPath(AggTask, c)
    \/ DisabledPath(AggTask, c)
    \/ MissWait(AggTask, c)
    \/ MissCall(AggTask, c)

(* sensor.py:502-503: the loop submits its next coordinate *)
HistorySubmit ==
    /\ agg.pc = "history"
    /\ agg.unique_coords # << >>
    /\ Resolve(Head(agg.unique_coords))
    /\ agg' = [agg EXCEPT !.unique_coords = Tail(@)]
    /\ pass' = [pass EXCEPT !.submitted = Append(@, Head(agg.unique_coords))]
    /\ UNCHANGED sensor

(* sensor.py:503-507: the call has returned *)
HistoryCollect ==
    /\ agg.pc = "history"
    /\ Return(AggTask)
    /\ LET country_code == result[AggTask]
       IN  /\ agg' = [agg EXCEPT !.detected =
                         IF country_code # None THEN @ \cup {country_code} ELSE @]
           /\ pass' = Counted([pass EXCEPT !.resolved =
                         IF country_code # None THEN @ \cup {country_code} ELSE @])
    /\ UNCHANGED sensor

(* sensor.py:262-272 after the loop has ended: the merged list, and the    *)
(* value of _last_visited_countries                                        *)
Merged == Merge(agg.manual_countries, ListOfSet(agg.detected))

(* sensor.py:258-298 and 302-312: the lists are merged; the person has no  *)
(* state or no coordinates any more, and the update publishes              *)
UpdateNoLocation ==
    /\ agg.pc = "history"
    /\ agg.unique_coords = << >>
    /\ pc[AggTask] = "idle"
    /\ sensor' = [native_value |-> Len(Merged),
                  attributes |->
                      [visited_countries |-> Merged,
                       visited_countries_names |-> Names(Merged),
                       detected_from_history |-> agg.detected,
                       manual_countries |-> agg.manual_countries,
                       current_country |-> None],
                  last_visited_countries |-> Merged]
    /\ agg' = NoUpdate
    /\ pass' = [pass EXCEPT !.ended = "published",
                            !.dropped = Range(sensor.attributes.visited_countries)
                                            \ Range(Merged)]
    /\ UNCHANGED <<cache, stats, reverse_geocoder, last_api_call_time,
                   cache_stats_callbacks, now, pc, coord, wake, result, gateway_started,
                   geocoded, first_result, notified, outcome>>

(* sensor.py:258-276 and 302-314: the lists are merged and the current     *)
(* coordinates of the person are submitted                                 *)
UpdateLocate(c) ==
    /\ agg.pc = "history"
    /\ agg.unique_coords = << >>
    /\ Resolve(c)
    /\ agg' = [agg EXCEPT !.pc = "current",
                          !.visited_countries = Merged,
                          !.aliased = Merged # sensor.last_visited_countries]
    /\ sensor' = [sensor EXCEPT !.last_visited_countries = Merged]
    /\ UNCHANGED pass

(* sensor.py:276-298: the call for the current coordinates has returned    *)
UpdatePublish ==
    /\ agg.pc = "current"
    /\ Return(AggTask)
    /\ sensor' = Publish(result[AggTask])
    /\ agg' = NoUpdate
    /\ pass' = Counted([pass EXCEPT !.ended = "published",
                                    !.dropped = Range(sensor.attributes.visited_countries)
                                        \ Range(sensor'.attributes.visited_countries)])

(* The sensor alone: its updates follow one another, and the clock is     *)
(* read when the update has slept                                          *)
NextAgg ==
    \/ UpdateNoState /\ UNCHANGED memVars
    \/ \E manual_countries \in Manuals : \E S \in SUBSET Coords :
          \E unique_coords \in Orders(S) :
              UpdateStart(manual_countries, unique_coords) /\ UNCHANGED memVars
    \/ \E manual_countries \in Manuals :
          UpdateStartUnread(manual_countries) /\ UNCHANGED memVars
    \/ HistorySubmit /\ UNCHANGED memVars
    \/ HistoryCollect /\ UNCHANGED memVars
    \/ UpdateNoLocation /\ UNCHANGED memVars
    \/ \E c \in Coords : UpdateLocate(c) /\ UNCHANGED memVars
    \/ UpdatePublish /\ UNCHANGED memVars
    \/ Wake(AggTask) /\ UNCHANGED restVars
    \/ \E resp \in Responses : JobDone(AggTask, resp) /\ UNCHANGED restVars
    \/ JobRaises(AggTask) /\ UNCHANGED restVars
    \/ Elapse(AggTask) /\ UNCHANGED restVars

SpecAgg == Init /\ [][NextAgg]_vars

---------------------------------------------------------------------------
(* The call that waits, with the local it holds while it is suspended *)

(* sensor.py:133: current_time = time.time() *)
ReadsClock(t) == read_time' = [read_time EXCEPT ![t] = now]

(* The call has ended, and its locals with it *)
EndsCall(t) == read_time' = [read_time EXCEPT ![t] = 0]

NextWait ==
    \/ \E c \in Coords : Resumed /\ HitPath("t1", c) /\ UNCHANGED restVars
    \/ \E c \in Coords : Resumed /\ DisabledPath("t1", c) /\ UNCHANGED restVars
    \/ \E c \in Coords :
          Resumed /\ MissWait("t1", c) /\ ReadsClock("t1") /\ UNCHANGED <<aggVars, history, entityVars, hassVars>>
    \/ \E c \in Coords :
          Resumed /\ MissCall("t1", c) /\ ReadsClock("t1") /\ UNCHANGED <<aggVars, history, entityVars, hassVars>>
    \/ Resumed /\ Wake("t1") /\ UNCHANGED restVars
    \/ \E resp \in Responses : Resumed /\ JobDone("t1", resp) /\ UNCHANGED restVars
    \/ Resumed /\ JobRaises("t1") /\ UNCHANGED restVars
    \/ Resumed /\ Cancel("t1") /\ EndsCall("t1") /\ UNCHANGED <<aggVars, history, entityVars, hassVars>>
    \/ Return("t1") /\ EndsCall("t1") /\ UNCHANGED <<aggVars, history, entityVars, hassVars>>
    \/ Environment

SpecWait == Init /\ [][NextWait]_vars

---------------------------------------------------------------------------
(* The statistics sensors: each CacheStatisticsSensor appends its own      *)
(* callback when it is constructed and removes it when the entity is       *)
(* removed; a sensor that was removed is not set up again (a reload        *)
(* constructs a new sensor, with a new callback)                           *)

(* sensor.py:527-540: the sensor o is constructed *)
SensorAdded(o) ==
    /\ o \notin removed
    /\ RegisterCallback(o)
    /\ UNCHANGED entityVars

(* sensor.py:552-555: the entity o is removed *)
SensorRemoved(o) ==
    /\ RemoveCallback(o)
    /\ removed' = removed \cup {o}
    /\ UNCHANGED called

(* sensor.py:65-69: the callbacks a step of a call has called, if it has   *)
(* notified                                                                *)
Hears ==
    /\ called' = IF notified'.count # notified.count
                 THEN Called(cache_stats_callbacks, notified'.raised)
                 ELSE called
    /\ UNCHANGED removed

NextEntities ==
    \/ \E o \in Observers \cup Faulty :
          Resumed /\ SensorAdded(o) /\ UNCHANGED <<aggVars, read_time, history, hassVars>>
    \/ \E o \in Observers \cup Faulty :
          Resumed /\ SensorRemoved(o) /\ UNCHANGED <<aggVars, read_time, history, hassVars>>
    \/ \E c \in Coords :
          Resumed /\ HitPath("t1", c) /\ Hears /\ UNCHANGED <<aggVars, read_time, history, hassVars>>
    \/ \E c \in Coords :
          Resumed /\ DisabledPath("t1", c) /\ Hears /\ UNCHANGED <<aggVars, read_time, history, hassVars>>
    \/ \E c \in Coords : Resumed /\ MissWait("t1", c) /\ UNCHANGED restVars
    \/ \E c \in Coords : Resumed /\ MissCall("t1", c) /\ UNCHANGED restVars
    \/ Resumed /\ Wake("t1") /\ UNCHANGED restVars
    \/ \E resp \in Responses :
          Resumed /\ JobDone("t1", resp) /\ Hears /\ UNCHANGED <<aggVars, read_time, history, hassVars>>
    \/ Resumed /\ JobRaises("t1") /\ Hears /\ UNCHANGED <<aggVars, read_time, history, hassVars>>
    \/ Return("t1") /\ UNCHANGED restVars
    \/ Resumed /\ Elapse("t1") /\ UNCHANGED restVars

SpecEntities == Init /\ [][NextEntities]_vars

---------------------------------------------------------------------------
(* The services of services.py on the state record of one person.  A       *)
(* service function has no await before its return: it is one step         *)

(* The country codes the callers pass, and the lists set_countries is      *)
(* called with                                                             *)
ServiceCodes == {"us", "US", "de", "FR"}
ServiceLists == UNION { [1..n -> ServiceCodes] : n \in 0..MaxCodes }

(* The state values of the person *)
PersonStates == {"home", "not_home"}

(* services.py:39 and 66: list(state.attributes.get("visited_countries", [])) *)
Visited(state) ==
    IF state.attributes.visited_countries = Absent
    THEN << >>
    ELSE state.attributes.visited_countries

RECURSIVE ListRemove(_, _)
(* list.remove(x): the first element equal to x is taken out *)
ListRemove(s, x) ==
    IF s = << >> THEN << >>
    ELSE IF Head(s) = x THEN Tail(s)
    ELSE <<Head(s)>> \o ListRemove(Tail(s), x)

(* hass.states.async_set(person, state.state, {**state.attributes,         *)
(* "visited_countries": visited})                                          *)
AsyncSet(state, visited) ==
    [state |-> state.state,
     attributes |-> [state.attributes EXCEPT !.visited_countries = visited]]

(* What a service call did *)
Did(name, code, returned) ==
    [name |-> name, code |-> code, returned |-> returned, wrote |-> returned]

(* A fault: the code is appended without a look at the list *)
AddCountryAlways(country_code) ==
    LET code == Upper(country_code)
    IN  IF person = NoState
        THEN person' = person /\ service' = Did("add_country", code, FALSE)
        ELSE /\ person' = AsyncSet(person, SortList(Append(Visited(person), code)))
             /\ service' = Did("add_country", code, TRUE)

(* services.py:33-57 *)
async_add_country(country_code) ==
    LET code == Upper(country_code)
        visited == Visited(person)
    IN  IF person = NoState
        THEN person' = person /\ service' = Did("add_country", code, FALSE)
        ELSE IF code \notin Range(visited)
        THEN /\ person' = AsyncSet(person, SortList(Append(visited, code)))
             /\ service' = Did("add_country", code, TRUE)
        ELSE person' = person /\ service' = Did("add_country", code, FALSE)

(* A fault: the state is written for a person that has no state record *)
RemoveCountryOfNobody(country_code) ==
    LET code == Upper(country_code)
        visited == Visited(person)
    IN  IF code \in Range(visited) \/ person = NoState
        THEN /\ person' = AsyncSet(person, ListRemove(visited, code))
             /\ service' = Did("remove_country", code, TRUE)
        ELSE person' = person /\ service' = Did("remove_country", code, FALSE)

(* services.py:60-83 *)
async_remove_country(country_code) ==
    LET code == Upper(country_code)
        visited == Visited(person)
    IN  IF person = NoState
        THEN person' = person /\ service' = Did("remove_country", code, FALSE)
        ELSE IF code \in Range(visited)
        THEN /\ person' = AsyncSet(person, ListRemove(visited, code))
             /\ service' = Did("remove_country", code, TRUE)
        ELSE person' = person /\ service' = Did("remove_country", code, FALSE)

(* A fault: the codes are stored as they were given *)
SetCountriesAsGiven(country_codes) ==
    IF person = NoState
    THEN person' = person /\ service' = Did("set_countries", "", FALSE)
    ELSE /\ person' = AsyncSet(person, country_codes)
         /\ service' = Did("set_countries", "", TRUE)

(* services.py:86-104 *)
async_set_countries(country_codes) ==
    IF person = NoState
    THEN person' = person /\ service' = Did("set_countries", "", FALSE)
    ELSE LET upper == [i \in 1..Len(country_codes) |-> Upper(country_codes[i])]
         IN  /\ person' = AsyncSet(person, SortList(upper))
             /\ service' = Did("set_countries", "", TRUE)

(* Home Assistant: the person gets its state record, without a             *)
(* visited_countries attribute, or its state value changes                 *)
PersonSet(value) ==
    /\ person.state # value
    /\ person' = IF person = NoState
                 THEN [state |-> value,
                       attributes |-> [friendly_name |-> "Ann",
                                       visited_countries |-> Absent]]
                 ELSE [person EXCEPT !.state = value]
    /\ service' = NoService

(* Home Assistant: the person is removed *)
PersonRemoved ==
    /\ person # NoState
    /\ person' = NoState
    /\ service' = NoService

(* The variables the services leave alone *)
coreVars ==
    <<cache, stats, reverse_geocoder, last_api_call_time, cache_stats_callbacks, now,
      pc, coord, wake, result, gateway_started, geocoded, first_result, notified,
      outcome, aggVars, read_time, history, entityVars, frontendVars>>

NextServices ==
    \/ \E country_code \in ServiceCodes :
          async_add_country(country_code) /\ UNCHANGED coreVars
    \/ \E country_code \in ServiceCodes :
          async_remove_country(country_code) /\ UNCHANGED coreVars
    \/ \E country_codes \in ServiceLists :
          async_set_countries(country_codes) /\ UNCHANGED coreVars
    \/ \E value \in PersonStates : PersonSet(value) /\ UNCHANGED coreVars
    \/ PersonRemoved /\ UNCHANGED coreVars

SpecServices == Init /\ [][NextServices]_vars

---------------------------------------------------------------------------
(* The registration of the cards in the Lovelace resources                 *)
(* (frontend/__init__.py).  A URL is the sequence of its parts: the base   *)
(* path, the name of the file, its extension, and after them "?", "v=" and *)
(* version strings.                                                        *)

(* const.py:31: the version of the manifest, without its v *)
FRONTEND_VERSION == "0.1"

(* The version of an earlier release *)
OldVersion == "0.0"

(* const.py:34 *)
URL_BASE == "/hacsfiles/countries-visited"

(* const.py:35-51 *)
COUNTRIES_VISITED_CARDS ==
    << [name |-> "Countries Map Data", filename |-> <<"/map-data", ".js">>,
        version |-> FRONTEND_VERSION],
       [name |-> "Countries Map Card", filename |-> <<"/countries-map-card", ".js">>,
        version |-> FRONTEND_VERSION],
       [name |-> "Countries Map Card CSS", filename |-> <<"/countries-map-card", ".css">>,
        version |-> FRONTEND_VERSION] >>

(* frontend/__init__.py:87: f"{URL_BASE}/{card.get('filename')}" *)
CardUrl(card) == <<URL_BASE>> \o card.filename

(* frontend/__init__.py:88: f"{url}?v={card.get('version')}" *)
VersionedUrl(card) == CardUrl(card) \o <<"?", "v=", card.version>>

(* str.startswith(URL_BASE) and str.endswith(".js") *)
StartsWith(url, prefix) == url # << >> /\ Head(url) = prefix
EndsWith(url, suffix) == url # << >> /\ url[Len(url)] = suffix

RECURSIVE Split(_, _)
(* str.split(sep): the parts between the separators, empty parts included *)
Split(url, sep) ==
    IF url = << >> THEN << << >> >>
    ELSE LET rest == Split(Tail(url), sep)
         IN  IF Head(url) = sep
             THEN << << >> >> \o rest
             ELSE << <<Head(url)>> \o Head(rest) >> \o Tail(rest)

(* str.replace(old, ""): every occurrence of old is taken out *)
Replace(s, old) == SelectSeq(s, LAMBDA part : part # old)

(* frontend/__init__.py:142-143 *)
get_resource_path(url) == Split(url, "?")[1]

(* frontend/__init__.py:145-149: a URL without "?" has no second part, the *)
(* IndexError is caught and 0 is returned; 0 is written "0" here, it       *)
(* differs from the version of every card like the number does             *)
get_resource_version(url) ==
    LET parts == Split(url, "?")
    IN  IF Len(parts) < 2 THEN <<"0">> ELSE Replace(parts[2], "v=")

(* The URLs of the resources that somebody else adds to Lovelace: the file *)
(* of a card without a version, with the current or an old version as this *)
(* integration writes it, with the version alone after the "?", and a file *)
(* of another integration                                                  *)
ResourceUrls ==
    UNION { { CardUrl(COUNTRIES_VISITED_CARDS[k]),
              VersionedUrl(COUNTRIES_VISITED_CARDS[k]),
              CardUrl(COUNTRIES_VISITED_CARDS[k]) \o <<"?", "v=", OldVersion>>,
              CardUrl(COUNTRIES_VISITED_CARDS[k]) \o <<"?", FRONTEND_VERSION>> }
            : k \in 1..Len(COUNTRIES_VISITED_CARDS) }
        \cup { <<"/local", "/other-card", ".js">> }

(* frontend/__init__.py:77-81: the positions of the resources of this      *)
(* integration; the position of a resource stands for its id               *)
countries_visited_resources(items) ==
    { i \in 1..Len(items) : StartsWith(items[i], URL_BASE) }

(* frontend/__init__.py:105-122: the resources of the card whose version   *)
(* is not the version of the card                                          *)
Outdated(items, card) ==
    { i \in countries_visited_resources(items) :
        /\ get_resource_path(items[i]) = CardUrl(card)
        /\ get_resource_version(items[i]) # <<card.version>> }

RECURSIVE RegisterFrom(_, _, _)
(* frontend/__init__.py:86-140: the loop over the cards, from the k-th on. *)
(* snapshot is what lines 77-84 read before the loop; run holds the items  *)
(* as the loop has left them so far and counts its async_create_item and   *)
(* async_update_item calls                                                 *)
RegisterFrom(k, snapshot, run) ==
    IF k > Len(COUNTRIES_VISITED_CARDS) THEN run
    ELSE LET card == COUNTRIES_VISITED_CARDS[k]
             url == CardUrl(card)
             versioned_url == VersionedUrl(card)
             existing_urls == Range(snapshot)
             card_registered ==
                 \E i \in countries_visited_resources(snapshot) :
                    get_resource_path(snapshot[i]) = url
             outdated == Outdated(snapshot, card)
             updated ==
                 [i \in 1..Len(run.items) |->
                    IF i \in outdated THEN versioned_url ELSE run.items[i]]
         IN  IF ~EndsWith(url, ".js") THEN RegisterFrom(k + 1, snapshot, run)
             ELSE IF versioned_url \in existing_urls
             THEN RegisterFrom(k + 1, snapshot, run)
             ELSE RegisterFrom(k + 1, snapshot,
                     [items |-> IF card_registered
                                THEN updated
                                ELSE Append(updated, versioned_url),
                      created |-> run.created + (IF card_registered THEN 0 ELSE 1),
                      updated |-> run.updated + Cardinality(outdated)])

(* frontend/__init__.py:70-140: one run, from the items it reads at its    *)
(* start                                                                   *)
async_register_countries_visited_cards ==
    LET run == RegisterFrom(1, lovelace.items,
                            [items |-> lovelace.items, created |-> 0, updated |-> 0])
    IN  /\ lovelace' = [lovelace EXCEPT !.items = run.items]
        /\ cards' = [runs |-> cards.runs + 1, created |-> run.created,
                     updated |-> run.updated]

(* A fault: the budget is taken as spent only when retries is below 0 *)
CheckOnceMore(w, retries) ==
    IF retries < 0
    THEN /\ waiter' = [waiter EXCEPT ![w].pc = "gave_up", ![w].retries = retries]
         /\ UNCHANGED <<lovelace, cards>>
    ELSE IF lovelace.loaded
    THEN /\ waiter' = [waiter EXCEPT ![w].pc = "registered", ![w].retries = retries,
                                     ![w].tests = @ + 1, ![w].registered = @ + 1]
         /\ async_register_countries_visited_cards
    ELSE /\ waiter' = [waiter EXCEPT ![w].pc = "later", ![w].retries = retries - 1,
                                     ![w].tests = @ + 1, ![w].later = @ + 1]
         /\ UNCHANGED <<lovelace, cards>>

(* frontend/__init__.py:50-66: one call of the closure, retries being the  *)
(* value of the nonlocal at the call                                       *)
check_lovelace_resources_loaded(w, retries) ==
    IF retries <= 0
    THEN /\ waiter' = [waiter EXCEPT ![w].pc = "gave_up", ![w].retries = retries]
         /\ UNCHANGED <<lovelace, cards>>
    ELSE IF lovelace.loaded
    THEN /\ waiter' = [waiter EXCEPT ![w].pc = "registered", ![w].retries = retries,
                                     ![w].tests = @ + 1, ![w].registered = @ + 1]
         /\ async_register_countries_visited_cards
    ELSE /\ waiter' = [waiter EXCEPT ![w].pc = "later", ![w].retries = retries - 1,
                                     ![w].tests = @ + 1, ![w].later = @ + 1]
         /\ UNCHANGED <<lovelace, cards>>

(* frontend/__init__.py:45-68: retries = 10, and the first call of the     *)
(* closure                                                                 *)
async_wait_for_lovelace_resources(w) ==
    /\ waiter[w].pc = "idle"
    /\ check_lovelace_resources_loaded(w, MaxRetries)

(* frontend/__init__.py:66: the call that async_call_later has scheduled *)
CallLater(w) ==
    /\ waiter[w].pc = "later"
    /\ check_lovelace_resources_loaded(w, waiter[w].retries)

(* Home Assistant: the Lovelace resources are loaded *)
ResourcesLoaded ==
    /\ ~lovelace.loaded
    /\ lovelace' = [lovelace EXCEPT !.loaded = TRUE]
    /\ UNCHANGED <<waiter, cards>>

(* Home Assistant: somebody else adds a resource to Lovelace *)
ResourceAdded(url) ==
    /\ Len(lovelace.items) < MaxResources
    /\ lovelace' = [lovelace EXCEPT !.items = Append(@, url)]
    /\ cards' = NoRun
    /\ UNCHANGED waiter

(* The variables the frontend leaves alone *)
backendVars ==
    <<cache, stats, reverse_geocoder, last_api_call_time, cache_stats_callbacks, now,
      pc, coord, wake, result, gateway_started, geocoded, first_result, notified,
      outcome, aggVars, read_time, history, entityVars, person, service>>

(* The async_wait_for_lovelace_resources calls of two config entries *)
NextLovelace ==
    \/ \E w \in Waiters :
          async_wait_for_lovelace_resources(w) /\ UNCHANGED backendVars
    \/ \E w \in Waiters : CallLater(w) /\ UNCHANGED backendVars
    \/ ResourcesLoaded /\ UNCHANGED backendVars

SpecLovelace == Init /\ [][NextLovelace]_vars

(* Registrations of the cards in resource lists that somebody else made *)
NextCards ==
    \/ \E url \in ResourceUrls : ResourceAdded(url) /\ UNCHANGED backendVars
    \/ ResourcesLoaded /\ UNCHANGED backendVars
    \/ /\ lovelace.loaded
       /\ cards.runs < MaxRuns
       /\ async_register_countries_visited_cards
       /\ UNCHANGED <<waiter, backendVars>>

SpecCards == Init /\ [][NextCards]_vars

---------------------------------------------------------------------------
(* Two tasks whose calls are not cancelled, under an event loop that runs  *)
(* what is ready: a sleep that is due ends, the executor job returns or    *)
(* raises, the caller of a call that returned resumes, and the time of a   *)
(* sleep passes                                                            *)

Wakes(t) == Resumed /\ Wake(t) /\ UNCHANGED restVars

JobReturns(t) ==
    /\ Resumed
    /\ JobRaises(t) \/ \E resp \in Responses : JobDone(t, resp)
    /\ UNCHANGED restVars

Returns(t) == Return(t) /\ UNCHANGED restVars

Elapses(t) == Resumed /\ Elapse(t) /\ UNCHANGED restVars

NextLive ==
    \E t \in Tasks :
        \/ \E c \in Coords : Resumed /\ HitPath(t, c) /\ UNCHANGED restVars
        \/ \E c \in Coords : Resumed /\ DisabledPath(t, c) /\ UNCHANGED restVars
        \/ \E c \in Coords : Resumed /\ MissWait(t, c) /\ UNCHANGED restVars
        \/ \E c \in Coords : Resumed /\ MissCall(t, c) /\ UNCHANGED restVars
        \/ Wakes(t)
        \/ JobReturns(t)
        \/ Returns(t)
        \/ Elapses(t)

SpecLive ==
    /\ Init
    /\ [][NextLive]_vars
    /\ \A t \in Tasks :
          /\ WF_vars(Wakes(t))
          /\ WF_vars(JobReturns(t))
          /\ WF_vars(Returns(t))
          /\ WF_vars(Elapses(t))

---------------------------------------------------------------------------
(* Updates that follow one another while the recorder holds the same       *)
(* states: list(set(coordinates_to_resolve)) is built from the same pairs  *)
(* of floats in the same order, and gives them in the same order again     *)

(* sensor.py:353-499 on the states the pass before read *)
UpdateStartSame(manual_countries, unique_coords) ==
    /\ history \in {NoHistory, unique_coords}
    /\ UpdateStart(manual_countries, unique_coords)
    /\ history' = unique_coords
    /\ UNCHANGED <<read_time, entityVars, hassVars>>

NextRepeat ==
    \/ \E manual_countries \in Manuals : \E unique_coords \in Orders(Coords) :
          UpdateStartSame(manual_countries, unique_coords)
    \/ HistorySubmit /\ UNCHANGED memVars
    \/ HistoryCollect /\ UNCHANGED memVars
    \/ UpdateNoLocation /\ UNCHANGED memVars
    \/ \E c \in Coords : UpdateLocate(c) /\ UNCHANGED memVars
    \/ UpdatePublish /\ UNCHANGED memVars
    \/ Wake(AggTask) /\ UNCHANGED restVars
    \/ \E resp \in Responses : JobDone(AggTask, resp) /\ UNCHANGED restVars
    \/ JobRaises(AggTask) /\ UNCHANGED restVars
    \/ Elapse(AggTask) /\ UNCHANGED restVars

SpecRepeat == Init /\ [][NextRepeat]_vars

---------------------------------------------------------------------------
(* What a step is, read from the two states it joins *)

(* Task t starts a call of get_country_from_coords for the coordinate c *)
CallStarts(t, c) == pc[t] = "idle" /\ pc'[t] # "idle" /\ coord'[t] = c

(* Task t hands a geocoding job to the executor *)
GatewayInvoked(t) == pc[t] # "calling" /\ pc'[t] = "calling"

(* Two raw coordinates round to the same 2-decimal values *)
SameKey(c, d) == Round2(c[1]) = Round2(d[1]) /\ Round2(c[2]) = Round2(d[2])

(* The key of c has a cache entry *)
Cached(c) == \E k \in DOMAIN cache : k = <<Round2(c[1]), Round2(c[2])>>

Entry(c) == cache[<<Round2(c[1]), Round2(c[2])>>]

Conserved(s) == s.total_requests = s.cache_hits + s.cache_misses

---------------------------------------------------------------------------
(* C1: whatever the interleaving of the callers, a geocoding job never      *)
(* starts less than RATE_LIMIT_SECONDS after the start of the one before:  *)
(* a caller that arrives while another is waiting waits from that caller's *)
(* call.  The code gives every waiting caller the same wake-up time, so    *)
(* this is violated.                                                       *)
C1_GatewayCallsSpaced ==
    [][\A t \in Tasks :
          (GatewayInvoked(t) /\ gateway_started # Never)
              => now - gateway_started >= RATE_LIMIT_SECONDS]_vars

(* C2: when one task makes its calls one after another, each awaited       *)
(* before the next, consecutive geocoding jobs start at least              *)
(* RATE_LIMIT_SECONDS apart.                                               *)
C2_SequentialCallsSpaced ==
    [][(GatewayInvoked("t1") /\ gateway_started # Never)
          => /\ gateway_started' = now
             /\ gateway_started' - gateway_started >= RATE_LIMIT_SECONDS]_vars

(* The single task has started a second job, one full interval after its   *)
(* first                                                                   *)
C2_Witness ==
    /\ pc["t1"] = "calling"
    /\ stats.api_calls >= 1
    /\ stats.cache_misses >= 2
    /\ gateway_started = Epoch + RATE_LIMIT_SECONDS

(* C3: total_requests = cache_hits + cache_misses in every state a task or *)
(* an observer can see: between any two steps, and in the statistics of    *)
(* every notification.                                                     *)
C3_RequestsConserved ==
    /\ Conserved(stats)
    /\ Conserved(notified.stats)

(* A call is suspended after hits and misses were counted *)
C3_Witness ==
    /\ \E t \in Tasks : pc[t] \in {"sleeping", "calling"}
    /\ stats.cache_hits >= 1
    /\ stats.cache_misses >= 2
    /\ notified.count >= 2

(* C4: api_calls <= cache_misses in every reachable state. *)
C4_ApiCallsAtMostMisses ==
    stats.api_calls <= stats.cache_misses

(* Every miss so far went to the geocoder, one of them failing, and was    *)
(* counted once                                                            *)
C4_Witness ==
    /\ stats.api_calls = 2
    /\ stats.cache_misses = 2
    /\ stats.cache_hits = 1
    /\ \E k \in DOMAIN cache : cache[k] = None

(* C5 as claimed: once a first call for a coordinate has completed, a      *)
(* call for the same coordinate returns the same value, is counted as a    *)
(* hit and starts no geocoding job.                                        *)
C5_IdempotentAsClaimed ==
    [][\A t \in Tasks : \A c \in Coords :
          (CallStarts(t, c) /\ first_result[c] # NoFirst)
              => /\ pc'[t] = "done"
                 /\ result'[t] = first_result[c].value
                 /\ stats'.cache_hits = stats.cache_hits + 1
                 /\ gateway_started' = gateway_started
                 /\ geocoded' = geocoded]_vars

(* C5: once a first call for a coordinate has completed and its key is in  *)
(* the cache (it was a hit, or it stored its result), a call for the same  *)
(* coordinate is counted as a hit, starts no geocoding job and returns the *)
(* key's cache entry; that is the value the first call returned when the   *)
(* first call stored it with no other call for the key in flight.          *)
C5_Idempotent ==
    [][\A t \in Tasks : \A c \in Coords :
          (CallStarts(t, c) /\ first_result[c].how \in {"hit", "raced", "quiet"})
              => /\ pc'[t] = "done"
                 /\ Cached(c) /\ result'[t] = Entry(c)
                 /\ first_result[c].how = "quiet" => result'[t] = first_result[c].value
                 /\ stats'.cache_hits = stats.cache_hits + 1
                 /\ stats'.cache_misses = stats.cache_misses
                 /\ stats'.api_calls = stats.api_calls
                 /\ gateway_started' = gateway_started
                 /\ geocoded' = geocoded]_vars

(* Two calls for one coordinate are complete: the failed lookup that       *)
(* stored None, and the hit that has just returned it                      *)
C5_Witness ==
    /\ \E t \in Tasks : \E c \in Coords :
          /\ pc[t] = "done" /\ coord[t] = c /\ result[t] = None
          /\ first_result[c] = [value |-> None, how |-> "quiet"]
    /\ stats.total_requests = 2
    /\ stats.cache_hits = 1
    /\ stats.api_calls = 1

(* C6 as claimed: calls for coordinates with the same rounded values       *)
(* return the same value, and only the first call for a key starts a       *)
(* geocoding job, whichever tasks make the calls.                          *)
C6_QuantizedAsClaimed ==
    /\ [](\A c, d \in Coords :
            (first_result[c] # NoFirst /\ first_result[d] # NoFirst /\ SameKey(c, d))
                => first_result[c].value = first_result[d].value)
    /\ [][\A t \in Tasks :
            GatewayInvoked(t) => CacheKey(coord'[t]) \notin geocoded]_vars

(* C6: coordinates with the same rounded values share one cache entry:     *)
(* once a call for one of them has stored its result, a call for any of    *)
(* them, by any task, is a hit that returns the entry and starts no        *)
(* geocoding job; it returns the stored value itself when no other call    *)
(* for the key was in flight at the store.  Only calls started before the  *)
(* key's first store start a job (calls in flight together each start one).*)
C6_Quantized ==
    [][\A t \in Tasks : \A c, d \in Coords :
          (CallStarts(t, c) /\ SameKey(c, d) /\ first_result[d].how \in {"raced", "quiet"})
              => /\ pc'[t] = "done"
                 /\ Cached(d) /\ result'[t] = Entry(d)
                 /\ first_result[d].how = "quiet" => result'[t] = first_result[d].value
                 /\ stats'.cache_hits = stats.cache_hits + 1
                 /\ gateway_started' = gateway_started
                 /\ geocoded' = geocoded
                 /\ cache' = cache]_vars

(* Two different coordinates of one key are resolved with one job: one     *)
(* stored the country, the other returned it from the cache                *)
C6_Witness ==
    \E t \in Tasks : \E c, d \in Coords :
        /\ c # d /\ SameKey(c, d)
        /\ first_result[c] = [value |-> "US", how |-> "quiet"]
        /\ first_result[d] = [value |-> "US", how |-> "hit"]
        /\ pc[t] = "done" /\ coord[t] = d /\ result[t] = "US"
        /\ stats.api_calls = 1 /\ stats.cache_hits = 1

(* C7: a call that finds its key in the cache does not write the rate      *)
(* limiter's timestamp, does not sleep and starts no geocoding job; of     *)
(* the counters it increments total_requests and cache_hits only.          *)
C7_CacheHitBypass ==
    [][\A t \in Tasks : \A c \in Coords :
          (CallStarts(t, c) /\ Cached(c))
              => /\ last_api_call_time' = last_api_call_time
                 /\ pc'[t] = "done" /\ wake' = wake
                 /\ gateway_started' = gateway_started /\ geocoded' = geocoded
                 /\ stats' = [stats EXCEPT !.total_requests = @ + 1, !.cache_hits = @ + 1]
                 /\ cache' = cache
                 /\ reverse_geocoder' = reverse_geocoder]_vars

(* A hit was served inside the interval in which a miss has to wait *)
C7_Witness ==
    \E t \in Tasks :
        /\ pc[t] = "done"
        /\ first_result[coord[t]].how = "hit"
        /\ stats.api_calls = 1 /\ stats.cache_hits = 1
        /\ MustWait(now)

(* C8: a cache entry, once made, is never changed and never removed.  A    *)
(* call that was in flight when the entry was made stores over it, so this *)
(* is violated.                                                            *)
C8_CacheAppendOnly ==
    [][\A k \in DOMAIN cache : k \in DOMAIN cache' /\ cache'[k] = cache[k]]_vars

(* C9: a miss with no geocoder increments total_requests and cache_misses, *)
(* notifies the observers, returns None, and leaves api_calls, the cache   *)
(* and the rate limiter's timestamp alone.                                 *)
C9_DisabledMiss ==
    [][\A t \in Tasks : \A c \in Coords :
          (CallStarts(t, c) /\ ~Cached(c) /\ reverse_geocoder' = "False")
              => /\ stats' = [stats EXCEPT !.total_requests = @ + 1, !.cache_misses = @ + 1]
                 /\ notified'.count = notified.count + 1
                 /\ notified'.stats = stats' /\ notified'.all
                 /\ pc'[t] = "done" /\ result'[t] = None
                 /\ cache' = cache
                 /\ last_api_call_time' = last_api_call_time
                 /\ gateway_started' = gateway_started /\ geocoded' = geocoded]_vars

(* A miss without a geocoder has returned, with an observer registered *)
C9_Witness ==
    /\ reverse_geocoder = "False"
    /\ \E t \in Tasks : pc[t] = "done" /\ result[t] = None
    /\ stats.cache_misses >= 1
    /\ cache_stats_callbacks # << >>
    /\ notified.stats = stats

(* C10: once the geocoder was found unavailable it stays so: every later   *)
(* call for an uncached key returns None, no geocoding job is started, and *)
(* api_calls and the cache never grow.                                     *)
C10_DisabledForGood ==
    [][reverse_geocoder = "False"
          => /\ reverse_geocoder' = "False"
             /\ stats'.api_calls = stats.api_calls
             /\ cache' = cache
             /\ gateway_started' = gateway_started /\ geocoded' = geocoded
             /\ \A t \in Tasks : pc'[t] \notin {"sleeping", "calling"}
             /\ \A t \in Tasks : \A c \in Coords :
                   CallStarts(t, c) => (pc'[t] = "done" /\ result'[t] = None)]_vars

(* Calls keep missing after the geocoder was found unavailable *)
C10_Witness ==
    /\ reverse_geocoder = "False"
    /\ stats.cache_misses >= 2
    /\ stats.api_calls = 0
    /\ cache = << >>
    /\ \E t \in Tasks : pc[t] = "done" /\ result[t] = None

---------------------------------------------------------------------------
(* The geocoding job of task t ends and its call returns *)
JobEnds(t) == pc[t] = "calling" /\ pc'[t] = "done"

(* A value the cache may hold and a call may return *)
ValidCode(v) == v = None \/ (Len(v) = 2 /\ Upper(v) = v)

(* C11: an error on the miss path (the request timing out, the provider or *)
(* the gateway failing, the await of the executor job raising) is caught:  *)
(* the key is stored as None, the call returns None, and the caller gets   *)
(* no exception.                                                           *)
C11_ErrorsCaught ==
    [][\A t \in Tasks :
          (pc[t] = "calling" /\ outcome'[t].kind \in
                {"timed_out", "service_error", "other_error", "job_raised"})
              => /\ pc'[t] = "done"
                 /\ result'[t] = None
                 /\ LET k == <<Round2(coord[t][1]), Round2(coord[t][2])>>
                    IN  k \in DOMAIN cache' /\ cache'[k] = None]_vars

(* The await of a job raised: the call returned None and the key is cached *)
(* as None                                                                 *)
C11_Witness ==
    \E t \in Tasks :
        /\ pc[t] = "done" /\ outcome[t] = JobRaised
        /\ result[t] = None
        /\ Cached(coord[t]) /\ Entry(coord[t]) = None

(* C12: a miss whose geocoding job ends (with a country, with nothing or   *)
(* with an error) increments api_calls by exactly one at that moment, and  *)
(* api_calls changes at no other moment; a call increments total_requests  *)
(* by exactly one when it starts, and total_requests changes at no other   *)
(* moment.                                                                 *)
C12_CountedOnce ==
    [][/\ \A t \in Tasks : JobEnds(t) => stats'.api_calls = stats.api_calls + 1
       /\ stats'.api_calls # stats.api_calls => \E t \in Tasks : JobEnds(t)
       /\ \A t \in Tasks : \A c \in Coords :
             CallStarts(t, c) => stats'.total_requests = stats.total_requests + 1
       /\ stats'.total_requests # stats.total_requests
             => \E t \in Tasks : \E c \in Coords : CallStarts(t, c)]_vars

(* Two misses went to the geocoder, one job gave a country and the await   *)
(* of the other has just raised: two calls counted                         *)
C12_Witness ==
    \E t \in Tasks :
        /\ pc[t] = "done" /\ outcome[t] = JobRaised
        /\ \E k \in DOMAIN cache : cache[k] = "FR"
        /\ stats.api_calls = 2 /\ stats.total_requests = 2

(* C13 as claimed: the observers have been notified of every change of the *)
(* counters whenever the changing task has yielded: the statistics of the  *)
(* latest notification are the current ones.                               *)
C13_NotifiedAsClaimed ==
    notified.stats = stats

(* C13: a call notifies the observers once, when it returns (as a hit, as  *)
(* a miss without a geocoder, or when its geocoding job has ended), in the *)
(* same step as the last change of the counters it makes and with the      *)
(* counters as they then are; the total_requests and cache_misses          *)
(* increments of a miss that goes to the geocoder are not notified before  *)
(* the task suspends.                                                      *)
C13_NotifiedOnReturn ==
    [][/\ \A t \in Tasks :
             (pc[t] # "done" /\ pc'[t] = "done")
                 => /\ notified'.count = notified.count + 1
                    /\ notified'.stats = stats'
                    /\ notified'.all
       /\ notified' # notified => \E t \in Tasks : pc[t] # "done" /\ pc'[t] = "done"
       /\ \A t \in Tasks :
             (pc[t] = "idle" /\ pc'[t] \in {"sleeping", "calling"})
                 => /\ stats'.cache_misses = stats.cache_misses + 1
                    /\ notified' = notified]_vars

(* A miss is suspended with its increments not notified, after an earlier  *)
(* call has notified a registered observer                                 *)
C13_Witness ==
    /\ \E t \in Tasks : pc[t] \in {"sleeping", "calling"}
    /\ notified.count >= 1
    /\ notified.stats.cache_misses < stats.cache_misses
    /\ cache_stats_callbacks # << >>

(* C14: when the callback of an observer raises during a notification,     *)
(* every registered observer has still been called, the counters and the   *)
(* cache are what the path of the call makes them, and the call returns    *)
(* its result.                                                             *)
C14_ObserverFailureIsolated ==
    [][\A t \in Tasks :
          (pc[t] # "done" /\ pc'[t] = "done" /\ notified'.raised # {})
              => LET k == <<Round2(coord'[t][1]), Round2(coord'[t][2])>>
                 IN  /\ notified'.all
                     /\ notified'.stats = stats'
                     /\ (pc[t] = "idle" /\ k \in DOMAIN cache)
                           => /\ stats' = CountHit(stats)
                              /\ cache' = cache
                              /\ result'[t] = cache[k]
                     /\ (pc[t] = "idle" /\ k \notin DOMAIN cache)
                           => /\ stats' = CountMiss(stats)
                              /\ cache' = cache
                              /\ result'[t] = None
                     /\ pc[t] = "calling"
                           => /\ stats' = CountApiCall(stats)
                              /\ result'[t] = IF outcome'[t] = JobRaised THEN None
                                              ELSE ReverseGeocode(outcome'[t])
                              /\ cache' = Store(k, result'[t])]_vars

(* The faulty observer is registered before the other one and raised in    *)
(* the notification of a call that stored and returned a country           *)
C14_Witness ==
    /\ cache_stats_callbacks = <<"broken_sensor", "stats_sensor">>
    /\ notified.raised = {"broken_sensor"}
    /\ notified.all
    /\ notified.stats = stats
    /\ pc["t1"] = "done" /\ result["t1"] = "FR" /\ outcome["t1"].kind = "location"
    /\ Cached(coord["t1"]) /\ Entry(coord["t1"]) = "FR"

(* C15: no step decreases total_requests, cache_hits, cache_misses or      *)
(* api_calls, and only the steps of get_country_from_coords (the start of  *)
(* a call, the end of its geocoding job) change them.                      *)
C15_CountersMonotonic ==
    [][/\ stats'.total_requests >= stats.total_requests
       /\ stats'.cache_hits >= stats.cache_hits
       /\ stats'.cache_misses >= stats.cache_misses
       /\ stats'.api_calls >= stats.api_calls
       /\ stats' # stats
             => \E t \in Tasks : JobEnds(t) \/ \E c \in Coords : CallStarts(t, c)]_vars

(* All four counters have grown, and a call was cancelled after its miss   *)
(* was counted                                                             *)
C15_Witness ==
    /\ stats.cache_hits >= 1
    /\ stats.api_calls >= 1
    /\ stats.cache_misses >= 2
    /\ \A t \in Tasks : pc[t] \in {"idle", "done"}
    /\ stats.total_requests > notified.count

(* C16: every value in the cache and every value a call returns is None or *)
(* a 2-letter upper-case code: a location without a country code or with   *)
(* one that is not 2 letters long, a timeout and a provider error give     *)
(* None.                                                                   *)
C16_CodesWellFormed ==
    /\ \A k \in DOMAIN cache : ValidCode(cache[k])
    /\ \A t \in Tasks :
          pc[t] = "done"
              => /\ ValidCode(result[t])
                 /\ outcome[t].kind \in {"no_location", "timed_out", "service_error",
                                         "other_error"} => result[t] = None
                 /\ (outcome[t].kind = "location" /\ Len(outcome[t].country_code) # 2)
                        => result[t] = None
                 /\ (outcome[t].kind = "location" /\ Len(outcome[t].country_code) = 2)
                        => result[t] # None

(* A lower-case code was stored in upper case, and a 3-letter code has     *)
(* just been returned as None                                              *)
C16_Witness ==
    \E t \in Tasks :
        /\ pc[t] = "done" /\ outcome[t].country_code = "usa" /\ result[t] = None
        /\ \E c \in Coords : first_result[c] = [value |-> "US", how |-> "quiet"]
        /\ \E k \in DOMAIN cache : cache[k] = "US"
        /\ \E k \in DOMAIN cache : cache[k] = None

---------------------------------------------------------------------------
(* An update of the sensor publishes in this step *)
Publishes == agg.pc # "idle" /\ agg'.pc = "idle"

(* The sensor has published, and the latest update ended publishing *)
Published == sensor.native_value # Unpublished

(* C17: the visited_countries list the sensor publishes is in strictly     *)
(* ascending order, so without duplicates, whatever the manual list, the   *)
(* codes found in the history and the current country are.                 *)
C17_VisitedSortedUnique ==
    Published =>
        LET visited_countries == sensor.attributes.visited_countries
        IN  \A i, j \in 1..Len(visited_countries) :
                i < j => Rank(visited_countries[i]) < Rank(visited_countries[j])

(* An unsorted manual list with a code twice, a code from the history that *)
(* the manual list has too, and a current country it has not               *)
C17_Witness ==
    /\ Published
    /\ pass.ended = "published"
    /\ sensor.attributes.manual_countries = <<"US", "DE", "US">>
    /\ sensor.attributes.detected_from_history = {"US"}
    /\ sensor.attributes.current_country = "FR"
    /\ sensor.attributes.visited_countries = <<"DE", "FR", "US">>

(* C18: when an update publishes, the codes of the published list are      *)
(* exactly the manual codes, the codes the calls for the history returned  *)
(* and the code the call for the current coordinates returned, if any; the *)
(* published value is the number of these codes.                           *)
C18_MergeCorrect ==
    [][Publishes =>
          LET current == IF agg.pc = "current" THEN result[AggTask] ELSE None
              expected == Range(agg.manual_countries) \cup pass.resolved
                              \cup (IF current # None THEN {current} ELSE {})
          IN  /\ Range(sensor'.attributes.visited_countries) = expected
              /\ sensor'.native_value = Cardinality(expected)
              /\ Len(sensor'.attributes.visited_countries) = Cardinality(expected)]_vars

(* The current country is in the manual list already, and the history gave *)
(* another code                                                            *)
C18_Witness ==
    /\ pass.ended = "published"
    /\ sensor.attributes.manual_countries = <<"ZZ", "FR">>
    /\ sensor.attributes.detected_from_history = {"US"}
    /\ sensor.attributes.current_country = "FR"
    /\ sensor.attributes.visited_countries = <<"FR", "US", "ZZ">>
    /\ sensor.native_value = 3

(* C19: in one pass at most max_coords coordinates of the history are      *)
(* submitted to get_country_from_coords, however many distinct ones the    *)
(* history holds.                                                          *)
C19_CapEnforced ==
    Len(pass.submitted) <= max_coords

(* The history held more distinct coordinates than the cap, max_coords of  *)
(* them were submitted and the update has published                        *)
C19_Witness ==
    /\ pass.found > max_coords
    /\ Len(pass.submitted) = max_coords
    /\ pass.ended = "published"

(* C20 as claimed: within one pass no two coordinates submitted from the   *)
(* history have the same cache key.                                        *)
C20_DedupByKey ==
    \A i, j \in 1..Len(pass.submitted) :
        i # j => CacheKey(pass.submitted[i]) # CacheKey(pass.submitted[j])

(* C21 as claimed: after an update that found the person without a state,  *)
(* the sensor shows an empty result: no visited codes, a count of 0 (or    *)
(* none yet) and no current country.                                       *)
C21_NoStateEmpty ==
    pass.ended = "no_state" =>
        /\ sensor.native_value \in {0, Unpublished}
        /\ sensor.attributes.visited_countries = << >>
        /\ sensor.attributes.current_country = None

(* C23: the published names are as many as the published codes, and the    *)
(* i-th name is the name const.py has for the i-th code, or the code       *)
(* itself when const.py has none.                                          *)
C23_NamesFollowCodes ==
    Published =>
        LET codes == sensor.attributes.visited_countries
            names == sensor.attributes.visited_countries_names
        IN  /\ Len(names) = Len(codes)
            /\ \A i \in 1..Len(codes) :
                  names[i] = CASE codes[i] = "DE" -> "Germany"
                               [] codes[i] = "FR" -> "France"
                               [] codes[i] = "US" -> "United States"
                               [] OTHER -> codes[i]

(* A code with a name and a code without one are published *)
C23_Witness ==
    /\ pass.ended = "published"
    /\ sensor.attributes.visited_countries = <<"FR", "ZZ">>
    /\ sensor.attributes.visited_countries_names = <<"France", "ZZ">>

(* C22: when the geocoder, the provider or the executor raises, the call   *)
(* returns None to the update, which goes on; and an update whose every    *)
(* geocoding job raised, the cache holding no code, publishes no current   *)
(* country and exactly the manual codes, sorted and without duplicates,    *)
(* also when reading the history raised.                                   *)
C22_FailuresContained ==
    /\ outcome[AggTask].kind \in Errors
          => pc[AggTask] = "done" /\ result[AggTask] = None
    /\ ( /\ pass.ended = "published"
         /\ pass.failed = pass.jobs
         /\ \A k \in DOMAIN cache : cache[k] = None )
          => LET manual == SortList(ListOfSet(Range(sensor.attributes.manual_countries)))
             IN  /\ sensor.attributes.current_country = None
                 /\ sensor.attributes.visited_countries = manual
                 /\ sensor.native_value = Len(manual)

(* Reading the history raised, the job for the current coordinates raised, *)
(* and the two manual codes are published                                  *)
C22_Witness ==
    /\ pass.ended = "published"
    /\ pass.reader = "raised"
    /\ pass.jobs = 1
    /\ pass.failed = 1
    /\ sensor.attributes.visited_countries = <<"FR", "ZZ">>
    /\ sensor.attributes.current_country = None
    /\ sensor.native_value = 2

(* An update ends: it publishes, or it returns because the person has no   *)
(* state                                                                   *)
UpdateEnds == pass' # pass /\ pass'.ended # "none"

(* C24: what the sensor shows when an update has ended is made of the      *)
(* inputs of that update alone: the visited codes are exactly the manual   *)
(* codes, the codes its history calls returned and the code its call for   *)
(* the current coordinates returned (none of them when the person has no   *)
(* state), whatever the sensor showed or kept in _last_visited_countries   *)
(* before; a code that only an earlier current country brought is gone     *)
(* when no input yields it.  An update that finds no state leaves what the *)
(* update before published, so this is violated.                           *)
C24_RecomputedFromScratch ==
    [][UpdateEnds
          => LET current == IF pc[AggTask] = "done" THEN result[AggTask] ELSE None
                 inputs == IF pass'.ended = "no_state"
                           THEN {}
                           ELSE Range(agg.manual_countries) \cup agg.detected
                                    \cup (IF current # None THEN {current} ELSE {})
             IN  Range(sensor'.attributes.visited_countries) = inputs]_vars

(* What holds of the updates that find the person's state: the published   *)
(* codes are exactly the codes of the inputs of the update, each once      *)
C24_PublishedFromInputs ==
    [][(Publishes /\ pass'.ended = "published")
          => LET current == IF pc[AggTask] = "done" THEN result[AggTask] ELSE None
                 inputs == Range(agg.manual_countries) \cup agg.detected
                               \cup (IF current # None THEN {current} ELSE {})
                 visited_countries == sensor'.attributes.visited_countries
             IN  /\ Range(visited_countries) = inputs
                 /\ Len(visited_countries) = Cardinality(inputs)
                 /\ sensor'.native_value = Cardinality(inputs)]_vars

(* The sensor showed FR, which only the current country of the update      *)
(* before had brought; this update has no current country and shows the    *)
(* two manual codes                                                        *)
C24_Dropped ==
    /\ pass.ended = "published"
    /\ pass.dropped = {"FR"}
    /\ sensor.attributes.manual_countries = <<"US", "DE", "US">>
    /\ sensor.attributes.detected_from_history = {}
    /\ sensor.attributes.current_country = None
    /\ sensor.attributes.visited_countries = <<"DE", "US">>

(* C25: when a call is cancelled while it waits for the rate limiter,      *)
(* _last_api_call_time is already the time that call read when it started, *)
(* or later.  The code writes the timestamp only when the sleep is over,   *)
(* so a cancelled call leaves the timestamp of the call before: this is    *)
(* violated.                                                               *)
C25_CancelledWaitRecorded ==
    [][(pc["t1"] = "sleeping" /\ pc'["t1"] = "idle")
          => last_api_call_time' >= read_time["t1"]]_vars

(* A new pass reads the states the pass before read *)
PassRepeats == agg.pc = "idle" /\ agg'.pc = "history" /\ history # NoHistory

(* C28: when the history holds more coordinates than the cap and the key   *)
(* of one of them is not in the cache, a further pass over the same        *)
(* history, the geocoder being available, submits a coordinate whose key   *)
(* is not in the cache, so that every key is in the cache after finitely   *)
(* many passes.  The code takes the first max_coords coordinates of the    *)
(* same list in every pass, so this is violated: the coordinates behind    *)
(* the cap are never submitted.                                            *)
C28_SkippedReprocessed ==
    [][( /\ PassRepeats
         /\ Len(history) > max_coords
         /\ reverse_geocoder # "False"
         /\ \E i \in 1..Len(history) : ~Cached(history[i]) )
          => \E i \in 1..Len(agg'.unique_coords) : ~Cached(agg'.unique_coords[i])]_vars

(* C26: get_cache_stats gives a hit_rate of 0 when there was no request,   *)
(* and otherwise cache_hits / total_requests x 100 rounded to two          *)
(* decimals (so within half a hundredth of it), between 0 and 100;         *)
(* cache_size is the number of keys of the cache, and the four counters    *)
(* are the counters as they are.  Rates are in hundredths of a percent.    *)
C26_CacheStatsReported ==
    LET s == get_cache_stats
        exact == stats.cache_hits * 10000
        total == stats.total_requests
    IN  /\ total = 0 => s.hit_rate = 0
        /\ total > 0 => /\ 2 * (s.hit_rate * total - exact) <= total
                        /\ 2 * (exact - s.hit_rate * total) <= total
        /\ s.hit_rate >= 0
        /\ s.hit_rate <= 10000
        /\ s.cache_size = Cardinality({ k \in Keys : InCache(k) })
        /\ s.cache_hits = stats.cache_hits
        /\ s.cache_misses = stats.cache_misses
        /\ s.api_calls = stats.api_calls
        /\ s.total_requests = stats.total_requests

(* One request in three was a hit: 33.33 percent, and one key is cached *)
C26_Witness ==
    /\ stats.cache_hits = 1
    /\ stats.total_requests = 3
    /\ get_cache_stats.hit_rate = 3333
    /\ get_cache_stats.cache_size = 1

(* C27: however the calls of two tasks for one key interleave, each call   *)
(* that goes to the geocoder is counted as one miss when it starts and as  *)
(* one api_call when its job ends; the store of an ending job leaves one   *)
(* entry for the key, holding the value that call returns (the last store  *)
(* wins) and leaving the other entries alone; and total_requests =         *)
(* cache_hits + cache_misses and api_calls <= cache_misses hold in every   *)
(* state on the way.                                                       *)
C27_BenignRace ==
    /\ [](Conserved(stats) /\ stats.api_calls <= stats.cache_misses)
    /\ [][\A t \in Tasks :
            /\ (pc[t] = "idle" /\ pc'[t] \in {"sleeping", "calling"})
                  => /\ stats' = [stats EXCEPT !.total_requests = @ + 1,
                                               !.cache_misses = @ + 1]
                     /\ cache' = cache
            /\ JobEnds(t)
                  => LET k == CacheKey(coord[t])
                     IN  /\ stats' = [stats EXCEPT !.api_calls = @ + 1]
                         /\ DOMAIN cache' = DOMAIN cache \cup {k}
                         /\ cache'[k] = result'[t]
                         /\ \A x \in DOMAIN cache \ {k} : cache'[x] = cache[x]]_vars

(* Two tasks missed on one coordinate and both went to the geocoder: the   *)
(* first to end stored US while the other was in flight, the other has now *)
(* stored FR over it; two misses, two api_calls, one entry                 *)
C27_Witness ==
    \E t \in Tasks :
        /\ pc[t] = "done"
        /\ result[t] = "FR"
        /\ first_result[coord[t]] = [value |-> "US", how |-> "raced"]
        /\ cache = (CacheKey(coord[t]) :> "FR")
        /\ stats = [cache_hits |-> 0, cache_misses |-> 2, api_calls |-> 2,
                    total_requests |-> 2]

(* C29: in every state the cache has at most api_calls entries, api_calls  *)
(* is at most cache_misses and cache_misses at most total_requests; and a  *)
(* step that writes the cache is a step that increments api_calls.         *)
C29_CacheSizeBounded ==
    /\ [](/\ Cardinality(DOMAIN cache) <= stats.api_calls
          /\ stats.api_calls <= stats.cache_misses
          /\ stats.cache_misses <= stats.total_requests)
    /\ [][cache' # cache => stats'.api_calls = stats.api_calls + 1]_vars

(* Two jobs stored under one key and a third call was a hit: one entry,    *)
(* two api_calls, two misses, three requests                               *)
C29_Witness ==
    /\ Cardinality(DOMAIN cache) = 1
    /\ stats.api_calls = 2
    /\ stats.cache_misses = 2
    /\ stats.total_requests = 3

(* C30: a call waits for the rate limiter at most once: the wait it starts *)
(* is longer than zero and at most RATE_LIMIT_SECONDS, its wake-up time    *)
(* does not change while it sleeps, when it wakes it starts its job        *)
(* without reading the timestamp again, and it never sleeps after its job  *)
(* has started; and every call that is suspended, in the sleep or in the   *)
(* job, returns once the sleep is due and the job returns, whatever the    *)
(* other task does.                                                        *)
C30_OneWaitThenReturns ==
    /\ [][\A t \in Tasks :
            /\ (pc[t] = "idle" /\ pc'[t] = "sleeping")
                  => wake'[t] > now /\ wake'[t] - now <= RATE_LIMIT_SECONDS
            /\ (pc[t] = "sleeping" /\ pc'[t] = "sleeping") => wake'[t] = wake[t]
            /\ (pc[t] = "sleeping" /\ pc'[t] # "sleeping")
                  => pc'[t] = "calling" /\ last_api_call_time' = now
            /\ pc[t] = "calling" => pc'[t] \in {"calling", "done"}]_vars
    /\ \A t \in Tasks : (pc[t] \in {"sleeping", "calling"}) ~> (pc[t] = "done")

(* Both tasks waited for the rate limiter at once, with the same wake-up  *)
(* time; one has started its job since, and the other has returned        *)
C30_Witness ==
    \E t, u \in Tasks :
        /\ pc[t] = "done"
        /\ pc[u] = "calling"
        /\ stats.cache_misses = 3
        /\ stats.api_calls = 2
        /\ now = Epoch + RATE_LIMIT_SECONDS
        /\ gateway_started = now

(* How many times the callback of o is in the list *)
Registrations(o, callbacks) ==
    Cardinality({ i \in DOMAIN callbacks : callbacks[i] = o })

(* C31: the callback of a statistics sensor that was constructed stays in  *)
(* _cache_stats_callbacks, once, until the sensor's                        *)
(* async_will_remove_from_hass runs; the callback of a removed sensor is   *)
(* not in the list and is called by no later notification; and a removal   *)
(* leaves the callback of every other sensor as it was, once in the list.  *)
C31_CallbackLifetime ==
    /\ [](\A o \in Observers \cup Faulty :
             /\ Registrations(o, cache_stats_callbacks) <= 1
             /\ o \in removed => Registrations(o, cache_stats_callbacks) = 0)
    /\ [][\A o \in Observers \cup Faulty :
            /\ (Registrations(o, cache_stats_callbacks) = 1 /\ o \notin removed')
                  => Registrations(o, cache_stats_callbacks') = 1
            /\ notified'.count # notified.count
                  => /\ o \in removed => o \notin called'
                     /\ o \in Range(cache_stats_callbacks) => o \in called']_vars

(* The statistics sensor was removed while the other sensor stayed, and    *)
(* the call that has just returned notified the other sensor alone         *)
C31_Witness ==
    /\ removed = {"stats_sensor"}
    /\ cache_stats_callbacks = <<"broken_sensor">>
    /\ pc["t1"] = "done"
    /\ notified.count = 1
    /\ called = {"broken_sensor"}

(* C32: in the attributes the sensor has published, current_country is     *)
(* None or one of visited_countries, and every code of manual_countries    *)
(* and of detected_from_history is one of visited_countries.               *)
C32_AttributesConsistent ==
    Published =>
        LET a == sensor.attributes
            visited == Range(a.visited_countries)
        IN  /\ a.current_country = None \/ a.current_country \in visited
            /\ Range(a.manual_countries) \subseteq visited
            /\ a.detected_from_history \subseteq visited

(* The current country is the only source of FR, the history the only      *)
(* source of US, the manual list the source of ZZ                          *)
C32_Witness ==
    /\ pass.ended = "published"
    /\ sensor.attributes.manual_countries = <<"ZZ", "FR">>
    /\ sensor.attributes.detected_from_history = {"US"}
    /\ sensor.attributes.current_country = "FR"
    /\ sensor.attributes.visited_countries = <<"FR", "US", "ZZ">>

(* C33: when remove_country has returned True, the upper-cased code is not *)
(* in the visited_countries attribute of the person, whatever add_country, *)
(* remove_country and set_countries calls made the list.  set_countries    *)
(* keeps a code given twice and list.remove takes out one of them, so this *)
(* is violated.                                                            *)
C33_RemovedIsGone ==
    (service.name = "remove_country" /\ service.returned)
        => service.code \notin Range(Visited(person))

(* C34: add_country of a code that is in the list returns False and writes *)
(* no state; add_country of a code that is not returns True and the list   *)
(* then holds the upper-cased code; so the second of two add_country calls *)
(* in a row with the same code returns False and leaves the person as the  *)
(* first call left it.                                                     *)
C34_AddIdempotent ==
    [][(service'.name = "add_country" /\ person # NoState)
          => LET code == service'.code
             IN  /\ code \in Range(Visited(person))
                       => /\ ~service'.returned
                          /\ ~service'.wrote
                          /\ person' = person
                 /\ code \notin Range(Visited(person))
                       => /\ service'.returned
                          /\ code \in Range(Visited(person'))
                 /\ (service.name = "add_country" /\ service.code = code)
                       => /\ ~service'.returned
                          /\ person' = person]_vars

(* The second add_country of US has returned False: the list holds DE and  *)
(* US once                                                                 *)
C34_Witness ==
    /\ service = [name |-> "add_country", code |-> "US", returned |-> FALSE,
                  wrote |-> FALSE]
    /\ person.attributes.visited_countries = <<"DE", "US">>

(* C35: the visited_countries list of a person that started without the    *)
(* attribute is in ascending order and holds upper-cased codes only, after *)
(* any add_country, remove_country and set_countries calls; and each call  *)
(* leaves the state value and the other attributes of the person as they   *)
(* were.                                                                   *)
C35_SortedUpperCased ==
    /\ [](LET visited == Visited(person)
          IN  /\ \A i \in 1..Len(visited) :
                    visited[i] \in Range(CodeOrder) /\ Upper(visited[i]) = visited[i]
              /\ \A i, j \in 1..Len(visited) :
                    i < j => Rank(visited[i]) <= Rank(visited[j]))
    /\ [][service'.name # "none"
            => /\ person'.state = person.state
               /\ person'.attributes.friendly_name = person.attributes.friendly_name]_vars

(* set_countries was called with us twice, and add_country with de *)
C35_Witness ==
    /\ person.state = "not_home"
    /\ person.attributes.friendly_name = "Ann"
    /\ person.attributes.visited_countries = <<"DE", "US", "US">>
    /\ service.name = "add_country"
    /\ service.returned

(* C36: a call of add_country, remove_country or set_countries for a       *)
(* person without a state record returns False and writes no state, and so *)
(* does a call of remove_country with a code that is not in the list.      *)
C36_NothingToChange ==
    [][/\ (service'.name # "none" /\ person = NoState)
            => /\ ~service'.returned
               /\ ~service'.wrote
               /\ person' = NoState
       /\ (service'.name = "remove_country"
               /\ service'.code \notin Range(Visited(person)))
            => /\ ~service'.returned
               /\ ~service'.wrote
               /\ person' = person]_vars

(* remove_country of DE has returned False for a person whose list holds   *)
(* US only                                                                 *)
C36_Witness ==
    /\ service = [name |-> "remove_country", code |-> "DE", returned |-> FALSE,
                  wrote |-> FALSE]
    /\ person.state = "home"
    /\ person.attributes.visited_countries = <<"US">>

(* C37: a call of async_wait_for_lovelace_resources reads resources.loaded *)
(* at most 10 times, calls async_call_later at most 10 times and registers *)
(* the cards at most once; every re-check it schedules takes one from      *)
(* retries, which never goes below 0; and a call whose retries are spent,  *)
(* or that has registered the cards, reads and schedules nothing more.     *)
C37_WaitIsBounded ==
    /\ [](\A w \in Waiters :
            /\ waiter[w].tests <= MaxRetries
            /\ waiter[w].later <= MaxRetries
            /\ waiter[w].registered <= 1
            /\ waiter[w].retries >= 0)
    /\ [][\A w \in Waiters :
            /\ waiter'[w].later # waiter[w].later
                  => /\ waiter'[w].later = waiter[w].later + 1
                     /\ waiter'[w].retries = waiter[w].retries - 1
            /\ (waiter[w].pc # "idle" /\ waiter[w].retries = 0)
                  => /\ waiter'[w].later = waiter[w].later
                     /\ waiter'[w].tests = waiter[w].tests
                     /\ waiter'[w].registered = waiter[w].registered
            /\ waiter[w].pc \in {"gave_up", "registered"}
                  => waiter'[w] = waiter[w]]_vars

(* One call has given up after 10 reads and 10 re-checks, the resources    *)
(* were loaded after that and the other call has registered the cards      *)
C37_Witness ==
    /\ waiter["w1"] = [pc |-> "gave_up", retries |-> 0, tests |-> MaxRetries,
                       later |-> MaxRetries, registered |-> 0]
    /\ waiter["w2"].pc = "registered"
    /\ waiter["w2"].registered = 1
    /\ cards.created = 2

(* After a registration every .js card has a resource with its versioned   *)
(* URL                                                                     *)
C38_EachCardRegistered ==
    cards.runs >= 1
        => \A k \in 1..Len(COUNTRIES_VISITED_CARDS) :
              EndsWith(CardUrl(COUNTRIES_VISITED_CARDS[k]), ".js")
                  => VersionedUrl(COUNTRIES_VISITED_CARDS[k]) \in Range(lovelace.items)

(* A registration that follows a registration creates and updates nothing *)
C38_SecondRunIdle ==
    [][(cards.runs >= 1 /\ cards'.runs = cards.runs + 1)
          => /\ cards'.created = 0
             /\ cards'.updated = 0
             /\ lovelace' = lovelace]_vars

(* A registration leaves the resources of a card that is no .js file as    *)
(* they are, and adds none                                                 *)
C38_CssLeftAlone ==
    [][cards'.runs = cards.runs + 1
          => \A k \in 1..Len(COUNTRIES_VISITED_CARDS) :
                LET url == CardUrl(COUNTRIES_VISITED_CARDS[k])
                    Of(items) ==
                        { i \in 1..Len(items) : get_resource_path(items[i]) = url }
                IN  ~EndsWith(url, ".js")
                        => /\ Of(lovelace'.items) = Of(lovelace.items)
                           /\ \A i \in Of(lovelace.items) :
                                 lovelace'.items[i] = lovelace.items[i]]_vars

(* C38: after one run of async_register_countries_visited_cards, on any    *)
(* list of resources, every .js card has a resource with its versioned     *)
(* URL; a second run creates and updates nothing; and the card that is no  *)
(* .js file is never registered.  A resource of a card whose URL gives the *)
(* version of the card and is not the versioned URL is left as it is, so   *)
(* the first part is violated.                                             *)
C38_RegistrationIdempotent ==
    /\ []C38_EachCardRegistered
    /\ C38_SecondRunIdle
    /\ C38_CssLeftAlone
====
